---- MODULE Spec2Model ----
(***************************************************************************)
(* Model of the BaZi calculation engine (src/backend/bazi) and of the      *)
(* solar-time module.  The engine is a set of pure functions; the state    *)
(* machine records the last function invoked, its arguments and what it    *)
(* returned or threw.  Every function is an operator computed the way the  *)
(* TypeScript computes it (JavaScript remainder, array indexing that can   *)
(* yield undefined, exceptions as values).  The report route calls the    *)
(* engine on the server (Spec); the profile storage runs in the browser,   *)
(* keeps its list in localStorage and reads the clock (StorageSpec).       *)
(***************************************************************************)
EXTENDS Integers, Sequences, FiniteSets, TLC

VARIABLES fn, args, ret, localStorage, now

vars == <<fn, args, ret, localStorage, now>>

(***************************************************************************)
(* Bounds of the model.                                                    *)
(***************************************************************************)
\* years -MaxYearOffset..MaxYearOffset around year 0 and around 1990 are used
MaxYearOffset == 30
\* births are taken from this many years, starting with 1990
MaxBirthYears == 1
\* longitudes are sampled every 7.5 degrees, this many steps each side of 0
MaxLongitudeSteps == 24
\* the browser clock runs from 0 to this many milliseconds
MaxClock == 1
\* profiles are saved with this many different birth dates
MaxBirthDates == 3
\* and with this many where the calls address the oldest profile only
MaxLruBirthDates == 6
\* the day pillar is taken this many days before and after its base date
MaxEpochDays == 70
\* the four pillars are derived for this many years from FirstPillarYear on
MaxPillarYears == 120

(***************************************************************************)
(* JavaScript semantics used by the code.                                  *)
(***************************************************************************)
\* a % n in JavaScript: the sign follows the dividend
JsRem(a, n) == IF a >= 0 THEN a % n ELSE 0 - ((0 - a) % n)

Abs(x) == IF x < 0 THEN 0 - x ELSE x

\* array[i] with a 0-based index: undefined outside the array
ArrayAt(arr, i) == IF i >= 0 /\ i < Len(arr) THEN arr[i + 1] ELSE "undefined"

\* array.indexOf(x): 0-based, -1 when absent
IndexOf(arr, x) ==
  IF \E i \in 1..Len(arr) : arr[i] = x
  THEN (CHOOSE i \in 1..Len(arr) : arr[i] = x /\ \A j \in 1..(i - 1) : arr[j] # x) - 1
  ELSE 0 - 1

\* a function's outcome: a returned value or a thrown Error with its message
Return(v) == [threw |-> FALSE, value |-> v]
Throw(msg) == [threw |-> TRUE, message |-> msg]

\* message.includes(part), messages being sequences of words
Includes(msg, part) ==
  \E i \in 0..(Len(msg) - Len(part)) :
    \A k \in 1..Len(part) : msg[i + k] = part[k]

\* const x = v; F(x): v is evaluated once, before F
Const(v, F(_)) == CHOOSE r \in {F(x) : x \in {v}} : TRUE

(***************************************************************************)
(* utils.ts: the stem and branch cycles.                                   *)
(***************************************************************************)
HEAVENLY_STEMS ==
  <<"Jia", "Yi", "Bing", "Ding", "Wu", "Ji", "Geng", "Xin", "Ren", "Gui">>

EARTHLY_BRANCHES ==
  <<"Zi", "Chou", "Yin", "Mao", "Chen", "Si", "Wu", "Wei", "Shen", "You", "Xu", "Hai">>

Stems == {HEAVENLY_STEMS[i] : i \in 1..Len(HEAVENLY_STEMS)}
Branches == {EARTHLY_BRANCHES[i] : i \in 1..Len(EARTHLY_BRANCHES)}

getYearStemNoNormalise(year) ==
  LET index == JsRem(year - 4, 10)
      stem  == ArrayAt(HEAVENLY_STEMS, index)
  IN IF stem = "undefined"
     THEN Throw(<<"Invalid", "year", "stem", "index">>)
     ELSE Return(stem)

getYearStem(year) ==
  LET index == JsRem(year - 4, 10)
      stem  == ArrayAt(HEAVENLY_STEMS, IF index < 0 THEN index + 10 ELSE index)
  IN IF stem = "undefined"
     THEN Throw(<<"Invalid", "year", "stem", "index">>)
     ELSE Return(stem)

\* getYearBranch counting from year 3 where getYearStem counts from year 4
getYearBranchFromYearThree(year) ==
  LET index  == JsRem(year - 3, 12)
      branch == ArrayAt(EARTHLY_BRANCHES, IF index < 0 THEN index + 12 ELSE index)
  IN IF branch = "undefined"
     THEN Throw(<<"Invalid", "year", "branch", "index">>)
     ELSE Return(branch)

getYearBranch(year) ==
  LET index  == JsRem(year - 4, 12)
      branch == ArrayAt(EARTHLY_BRANCHES, IF index < 0 THEN index + 12 ELSE index)
  IN IF branch = "undefined"
     THEN Throw(<<"Invalid", "year", "branch", "index">>)
     ELSE Return(branch)

\* hiddenStemMap of getHiddenStemsForBranch
hiddenStemMap(branch) ==
  CASE branch = "Zi"   -> << [stem |-> "Gui", strength |-> "strong"] >>
    [] branch = "Chou" -> << [stem |-> "Ji", strength |-> "medium"],
                             [stem |-> "Gui", strength |-> "weak"],
                             [stem |-> "Xin", strength |-> "weak"] >>
    [] branch = "Yin"  -> << [stem |-> "Jia", strength |-> "strong"],
                             [stem |-> "Bing", strength |-> "medium"],
                             [stem |-> "Wu", strength |-> "weak"] >>
    [] branch = "Mao"  -> << [stem |-> "Yi", strength |-> "strong"] >>
    [] branch = "Chen" -> << [stem |-> "Wu", strength |-> "medium"],
                             [stem |-> "Yi", strength |-> "weak"],
                             [stem |-> "Gui", strength |-> "weak"] >>
    [] branch = "Si"   -> << [stem |-> "Bing", strength |-> "strong"],
                             [stem |-> "Wu", strength |-> "medium"],
                             [stem |-> "Geng", strength |-> "weak"] >>
    [] branch = "Wu"   -> << [stem |-> "Ding", strength |-> "strong"],
                             [stem |-> "Ji", strength |-> "medium"] >>
    [] branch = "Wei"  -> << [stem |-> "Ji", strength |-> "medium"],
                             [stem |-> "Ding", strength |-> "weak"],
                             [stem |-> "Yi", strength |-> "weak"] >>
    [] branch = "Shen" -> << [stem |-> "Geng", strength |-> "strong"],
                             [stem |-> "Ren", strength |-> "medium"],
                             [stem |-> "Wu", strength |-> "weak"] >>
    [] branch = "You"  -> << [stem |-> "Xin", strength |-> "strong"] >>
    [] branch = "Xu"   -> << [stem |-> "Wu", strength |-> "medium"],
                             [stem |-> "Xin", strength |-> "weak"],
                             [stem |-> "Ding", strength |-> "weak"] >>
    [] branch = "Hai"  -> << [stem |-> "Ren", strength |-> "strong"],
                             [stem |-> "Jia", strength |-> "medium"] >>
    [] OTHER -> "undefined"

getHiddenStemsForBranchNoZi(branch) ==
  IF branch \in Branches \ {"Zi"} THEN hiddenStemMap(branch) ELSE << >>

\* a missing branch yields the empty list (with a console warning), not an error
getHiddenStemsForBranch(branch) ==
  IF branch \in Branches THEN hiddenStemMap(branch) ELSE << >>

(***************************************************************************)
(* tenGod.ts                                                               *)
(***************************************************************************)
getStemElement(stem) ==
  CASE stem \in {"Jia", "Yi"}    -> "Wood"
    [] stem \in {"Bing", "Ding"} -> "Fire"
    [] stem \in {"Wu", "Ji"}     -> "Earth"
    [] stem \in {"Geng", "Xin"}  -> "Metal"
    [] stem \in {"Ren", "Gui"}   -> "Water"
    [] OTHER -> "undefined"

isStemYang(stem) == JsRem(IndexOf(HEAVENLY_STEMS, stem), 2) = 0

generateMap(e) ==
  CASE e = "Wood" -> "Fire" [] e = "Fire" -> "Earth" [] e = "Earth" -> "Metal"
    [] e = "Metal" -> "Water" [] e = "Water" -> "Wood" [] OTHER -> "undefined"

overcomeMap(e) ==
  CASE e = "Wood" -> "Earth" [] e = "Fire" -> "Metal" [] e = "Earth" -> "Water"
    [] e = "Metal" -> "Wood" [] e = "Water" -> "Fire" [] OTHER -> "undefined"

overcomeByMap(e) ==
  CASE e = "Wood" -> "Metal" [] e = "Fire" -> "Water" [] e = "Earth" -> "Wood"
    [] e = "Metal" -> "Fire" [] e = "Water" -> "Earth" [] OTHER -> "undefined"

generateByMapWrong(e) ==
  CASE e = "Wood" -> "Water" [] e = "Fire" -> "Wood" [] e = "Earth" -> "Fire"
    [] e = "Metal" -> "Earth" [] e = "Water" -> "Earth" [] OTHER -> "undefined"

generateByMap(e) ==
  CASE e = "Wood" -> "Water" [] e = "Fire" -> "Wood" [] e = "Earth" -> "Fire"
    [] e = "Metal" -> "Earth" [] e = "Water" -> "Metal" [] OTHER -> "undefined"

calculateTenGod(dayMaster, otherStem) ==
  LET dayElement   == getStemElement(dayMaster)
      otherElement == getStemElement(otherStem)
      same         == isStemYang(dayMaster) = isStemYang(otherStem)
  IN IF dayElement = otherElement
       THEN Return(IF same THEN "BiJian" ELSE "JieCai")
     ELSE IF generateMap(dayElement) = otherElement
       THEN Return(IF same THEN "ShiShen" ELSE "ShangGuan")
     ELSE IF overcomeMap(dayElement) = otherElement
       THEN Return(IF same THEN "ZhengCai" ELSE "PianCai")
     ELSE IF overcomeByMap(dayElement) = otherElement
       THEN Return(IF same THEN "ZhengGuan" ELSE "QiSha")
     ELSE IF generateByMap(dayElement) = otherElement
       THEN Return(IF same THEN "ZhengYin" ELSE "PianYin")
     ELSE Throw(<<"cannot", "compute", "ten", "god">>)

TenGods ==
  {"BiJian", "JieCai", "ShiShen", "ShangGuan", "ZhengCai", "PianCai",
   "ZhengGuan", "QiSha", "ZhengYin", "PianYin"}

\* data.map(h => ({stem, tenGod: calculateTenGod(ref, h.stem), strength})),
\* from element k on: the first calculateTenGod that throws aborts the map
RECURSIVE mapHiddenFrom(_, _, _, _)
mapHiddenFrom(data, ref, k, acc) ==
  IF k > Len(data) THEN Return(acc)
  ELSE LET tenGod == calculateTenGod(ref, data[k].stem)
       IN IF tenGod.threw THEN tenGod
          ELSE mapHiddenFrom(data, ref, k + 1,
                 Append(acc, [stem |-> data[k].stem, tenGod |-> tenGod.value,
                              strength |-> data[k].strength]))

mapHiddenStems(branch, ref) ==
  Const(getHiddenStemsForBranch(branch), LAMBDA hiddenStemsData :
    mapHiddenFrom(hiddenStemsData, ref, 1, << >>))

(***************************************************************************)
(* interactionMatrix.ts                                                    *)
(***************************************************************************)
CHONG_MAP(b) ==
  CASE b = "Zi" -> "Wu" [] b = "Chou" -> "Wei" [] b = "Yin" -> "Shen"
    [] b = "Mao" -> "You" [] b = "Chen" -> "Xu" [] b = "Si" -> "Hai"
    [] b = "Wu" -> "Zi" [] b = "Wei" -> "Chou" [] b = "Shen" -> "Yin"
    [] b = "You" -> "Mao" [] b = "Xu" -> "Chen" [] b = "Hai" -> "Si"
    [] OTHER -> "undefined"

HE_MAP(b) ==
  CASE b = "Zi" -> "Chou" [] b = "Chou" -> "Zi" [] b = "Yin" -> "Hai"
    [] b = "Mao" -> "null" [] b = "Chen" -> "You" [] b = "Si" -> "null"
    [] b = "Wu" -> "Wei" [] b = "Wei" -> "Wu" [] b = "Shen" -> "Si"
    [] b = "You" -> "Chen" [] b = "Xu" -> "Mao" [] b = "Hai" -> "Yin"
    [] OTHER -> "undefined"

isChong(branch1, branch2) == CHONG_MAP(branch1) = branch2

isHe(branch1, branch2) == HE_MAP(branch1) = branch2

xingGroups == << {"Yin", "Si", "Shen"}, {"Chou", "Wei", "Xu"}, {"Zi", "Mao"} >>

\* isXing without the test that the two branches differ
isXingSameBranch(branch1, branch2) ==
  \E g \in 1..Len(xingGroups) :
    branch1 \in xingGroups[g] /\ branch2 \in xingGroups[g]

isXing(branch1, branch2) ==
  \E g \in 1..Len(xingGroups) :
    branch1 \in xingGroups[g] /\ branch2 \in xingGroups[g] /\ branch1 # branch2

haiPairs ==
  << <<"Zi", "Wei">>, <<"Chou", "Wu">>, <<"Yin", "Si">>,
     <<"Mao", "Chen">>, <<"Shen", "Hai">>, <<"You", "Xu">> >>

isHai(branch1, branch2) ==
  \E p \in 1..Len(haiPairs) :
    \/ haiPairs[p][1] = branch1 /\ haiPairs[p][2] = branch2
    \/ haiPairs[p][1] = branch2 /\ haiPairs[p][2] = branch1

\* the pillars array of calculateInteractionMatrix
pillarKeys == <<"year", "month", "day", "hour">>

\* the inner loop starts at j = i + 1
innerLoopStartZero(i) == 0

innerLoopStart(i) == i + 1

\* the (i, j) index pairs in the order the two nested loops visit them
RECURSIVE loopPairs(_, _)
loopPairs(i, j) ==
  IF i >= Len(pillarKeys) THEN << >>
  ELSE IF j >= Len(pillarKeys) THEN loopPairs(i + 1, innerLoopStart(i + 1))
  ELSE << <<i, j>> >> \o loopPairs(i, j + 1)

\* the entries one loop iteration pushes, in order chong, he, xing, hai
pairEntries(fourPillars, i, j) ==
  LET key1    == pillarKeys[i + 1]
      key2    == pillarKeys[j + 1]
      branch1 == fourPillars[key1].earthlyBranch
      branch2 == fourPillars[key2].earthlyBranch
      entry(t) == << [type |-> t, from |-> key1, to |-> key2] >>
  IN (IF isChong(branch1, branch2) THEN entry("chong") ELSE << >>)
     \o (IF isHe(branch1, branch2) THEN entry("he") ELSE << >>)
     \o (IF isXing(branch1, branch2) THEN entry("xing") ELSE << >>)
     \o (IF isHai(branch1, branch2) THEN entry("hai") ELSE << >>)

RECURSIVE collectEntries(_, _, _)
collectEntries(fourPillars, pairs, k) ==
  IF k > Len(pairs) THEN << >>
  ELSE pairEntries(fourPillars, pairs[k][1], pairs[k][2])
       \o collectEntries(fourPillars, pairs, k + 1)

calculateInteractionMatrix(fourPillars) ==
  [entries |-> collectEntries(fourPillars, loopPairs(0, innerLoopStart(0)), 1)]

(***************************************************************************)
(* JavaScript Date, as far as the engine uses it: a local date and time    *)
(* of a process whose timezone has no daylight saving, so that local       *)
(* midnights are exactly 24 hours apart.                                   *)
(***************************************************************************)
undefinedDate == [defined |-> FALSE, year |-> 0, month |-> 0, day |-> 0, minutes |-> 0]

\* new Date(year, month - 1, day, 0, minutes): month is 1..12 here
NewDate(y, m, d, mins) ==
  [defined |-> TRUE, year |-> y, month |-> m, day |-> d, minutes |-> mins]

IsLeapYear(y) == (y % 4 = 0 /\ y % 100 # 0) \/ y % 400 = 0

DaysBeforeMonth(y, m) ==
  LET cumulative == <<0, 31, 59, 90, 120, 151, 181, 212, 243, 273, 304, 334>>
  IN cumulative[m] + (IF m > 2 /\ IsLeapYear(y) THEN 1 ELSE 0)

DaysInMonth(y, m) ==
  IF m = 2 THEN (IF IsLeapYear(y) THEN 28 + 1 ELSE 28)
  ELSE IF m \in {4, 6, 9, 11} THEN 30 ELSE 31

\* number of the calendar day, counted from 0001-01-01
DayNumber(y, m, d) ==
  365 * (y - 1) + ((y - 1) \div 4) - ((y - 1) \div 100) + ((y - 1) \div 400)
  + DaysBeforeMonth(y, m) + d

\* date.getTime(), in minutes instead of milliseconds
GetTimeMinutes(date) == DayNumber(date.year, date.month, date.day) * (24 * 60) + date.minutes

(***************************************************************************)
(* luckPillars.ts                                                          *)
(***************************************************************************)
shouldReverseLuckMaleOnly(yearStem, gender) ==
  ~(JsRem(IndexOf(HEAVENLY_STEMS, yearStem), 2) = 0)

shouldReverseLuck(yearStem, gender) ==
  LET yearIndex  == IndexOf(HEAVENLY_STEMS, yearStem)
      isYearYang == JsRem(yearIndex, 2) = 0
  IN IF gender = "male" THEN ~isYearYang ELSE isYearYang

solarTerms ==
  << [month |-> 2, day |-> 4], [month |-> 3, day |-> 6], [month |-> 4, day |-> 5],
     [month |-> 5, day |-> 6], [month |-> 6, day |-> 6], [month |-> 7, day |-> 7],
     [month |-> 8, day |-> 8], [month |-> 9, day |-> 8], [month |-> 10, day |-> 8],
     [month |-> 11, day |-> 8], [month |-> 12, day |-> 7], [month |-> 1, day |-> 6] >>

\* the reverse loop: i runs from solarTerms.length - 1 down to 0
RECURSIVE previousTermFrom(_, _)
previousTermFrom(birthDate, i) ==
  IF i < 0 THEN NewDate(birthDate.year - 1, 1, 6, 0)
  ELSE LET term     == solarTerms[i + 1]
           termYear == IF term.month = 1 THEN birthDate.year - 1 ELSE birthDate.year
           termDate == NewDate(termYear, term.month, term.day, 0)
       IN IF GetTimeMinutes(termDate) <= GetTimeMinutes(birthDate)
          THEN termDate
          ELSE previousTermFrom(birthDate, i - 1)

\* the forward loop: the terms of the birth year in table order
RECURSIVE nextTermFrom(_, _)
nextTermFrom(birthDate, i) ==
  IF i >= Len(solarTerms) THEN NewDate(birthDate.year + 1, 2, 4, 0)
  ELSE LET term     == solarTerms[i + 1]
           termDate == NewDate(birthDate.year, term.month, term.day, 0)
       IN IF GetTimeMinutes(termDate) > GetTimeMinutes(birthDate)
          THEN termDate
          ELSE nextTermFrom(birthDate, i + 1)

\* birthDate.getFullYear() on undefined is a TypeError
getNextSolarTerm(birthDate, reverse) ==
  IF ~birthDate.defined
  THEN Throw(<<"TypeError:", "Cannot", "read", "properties", "of", "undefined">>)
  ELSE IF reverse
  THEN Return(previousTermFrom(birthDate, Len(solarTerms) - 1))
  ELSE Return(nextTermFrom(birthDate, 0))

calculateStartAgeNoStep(step, birthDate, reverse) ==
  LET solarTermDate == getNextSolarTerm(birthDate, reverse)
  IN IF solarTermDate.threw THEN solarTermDate
     ELSE Return((Abs((GetTimeMinutes(solarTermDate.value) - GetTimeMinutes(birthDate))
                      \div (24 * 60))) \div 3)

calculateStartAge(step, birthDate, reverse) ==
  LET solarTermDate == getNextSolarTerm(birthDate, reverse)
  IN IF solarTermDate.threw THEN solarTermDate
     ELSE LET daysDiff == Abs((GetTimeMinutes(solarTermDate.value)
                               - GetTimeMinutes(birthDate)) \div (24 * 60))
              firstStepStartAge == daysDiff \div 3
          IN Return(firstStepStartAge + (step - 1) * 10)

calculateLuckPillarUnnormalised(monthStem, monthBranch, step, reverse) ==
  LET monthStemIndex   == IndexOf(HEAVENLY_STEMS, monthStem)
      monthBranchIndex == IndexOf(EARTHLY_BRANCHES, monthBranch)
      direction        == IF reverse THEN 0 - 1 ELSE 1
      newStemIndex     == JsRem(monthStemIndex + direction * step, 10)
      newBranchIndex   == JsRem(monthBranchIndex + direction * step, 12)
      stem             == ArrayAt(HEAVENLY_STEMS, newStemIndex)
      branch           == ArrayAt(EARTHLY_BRANCHES, newBranchIndex)
  IN IF monthStemIndex = 0 - 1 THEN Throw(<<"Invalid", "month", "stem">>)
     ELSE IF monthBranchIndex = 0 - 1 THEN Throw(<<"Invalid", "month", "branch">>)
     ELSE IF stem = "undefined" \/ branch = "undefined"
       THEN Throw(<<"Invalid", "stem", "or", "branch", "index">>)
     ELSE LET hiddenStems == mapHiddenStems(branch, monthStem)
          IN IF hiddenStems.threw THEN hiddenStems
             ELSE Return([heavenlyStem |-> stem, earthlyBranch |-> branch,
                          hiddenStems |-> hiddenStems.value])

calculateLuckPillarOwnStem(monthStem, monthBranch, step, reverse) ==
  LET monthStemIndex   == IndexOf(HEAVENLY_STEMS, monthStem)
      monthBranchIndex == IndexOf(EARTHLY_BRANCHES, monthBranch)
      direction        == IF reverse THEN 0 - 1 ELSE 1
      newStemIndex     == JsRem(monthStemIndex + direction * step + 10, 10)
      newBranchIndex   == JsRem(monthBranchIndex + direction * step + 12, 12)
      stem             == ArrayAt(HEAVENLY_STEMS, newStemIndex)
      branch           == ArrayAt(EARTHLY_BRANCHES, newBranchIndex)
  IN IF monthStemIndex = 0 - 1 THEN Throw(<<"Invalid", "month", "stem">>)
     ELSE IF monthBranchIndex = 0 - 1 THEN Throw(<<"Invalid", "month", "branch">>)
     ELSE IF stem = "undefined" \/ branch = "undefined"
       THEN Throw(<<"Invalid", "stem", "or", "branch", "index">>)
     ELSE LET hiddenStems == mapHiddenStems(branch, stem)
          IN IF hiddenStems.threw THEN hiddenStems
             ELSE Return([heavenlyStem |-> stem, earthlyBranch |-> branch,
                          hiddenStems |-> hiddenStems.value])

calculateLuckPillar(monthStem, monthBranch, step, reverse) ==
  LET monthStemIndex   == IndexOf(HEAVENLY_STEMS, monthStem)
      monthBranchIndex == IndexOf(EARTHLY_BRANCHES, monthBranch)
      direction        == IF reverse THEN 0 - 1 ELSE 1
      newStemIndex     == JsRem(monthStemIndex + direction * step + 10, 10)
      newBranchIndex   == JsRem(monthBranchIndex + direction * step + 12, 12)
      stem             == ArrayAt(HEAVENLY_STEMS, newStemIndex)
      branch           == ArrayAt(EARTHLY_BRANCHES, newBranchIndex)
  IN IF monthStemIndex = 0 - 1 THEN Throw(<<"Invalid", "month", "stem">>)
     ELSE IF monthBranchIndex = 0 - 1 THEN Throw(<<"Invalid", "month", "branch">>)
     ELSE IF stem = "undefined" \/ branch = "undefined"
       THEN Throw(<<"Invalid", "stem", "or", "branch", "index">>)
     ELSE LET hiddenStems == mapHiddenStems(branch, monthStem)
          IN IF hiddenStems.threw THEN hiddenStems
             ELSE Return([heavenlyStem |-> stem, earthlyBranch |-> branch,
                          hiddenStems |-> hiddenStems.value])

totalSteps == 8

\* one iteration of the loop of calculateLuckPillars
luckStep(monthStem, monthBranch, birthDate, reverse, step) ==
  LET pillar   == calculateLuckPillar(monthStem, monthBranch, step, reverse)
      startAge == calculateStartAge(step, birthDate, reverse)
  IN IF pillar.threw THEN pillar
     ELSE IF startAge.threw THEN startAge
     ELSE Return([index |-> step, startAge |-> startAge.value,
                  endAge |-> startAge.value + 9, pillar |-> pillar.value])

\* the loop of calculateLuckPillars from step on; a throw ends it
RECURSIVE luckLoop(_, _, _, _, _, _)
luckLoop(monthStem, monthBranch, birthDate, reverse, step, luckPillars) ==
  IF step > totalSteps THEN Return(luckPillars)
  ELSE LET entry == luckStep(monthStem, monthBranch, birthDate, reverse, step)
       IN IF entry.threw THEN entry
          ELSE luckLoop(monthStem, monthBranch, birthDate, reverse, step + 1,
                        Append(luckPillars, entry.value))

calculateLuckPillars(yearStem, monthStem, monthBranch, gender, dayMaster, birthDate) ==
  luckLoop(monthStem, monthBranch, birthDate, shouldReverseLuck(yearStem, gender), 1, << >>)

(***************************************************************************)
(* Timestamp strings.  A string is modelled by its shape and the numbers   *)
(* written in it:                                                          *)
(*   "local"    YYYY-MM-DDTHH:mm:ss       e.g. 1990-01-15T14:30:00         *)
(*   "isoZ"     YYYY-MM-DDTHH:mm:ss.sssZ  e.g. 2025-01-01T08:00:00.000Z    *)
(*   "overflow" the local shape with a field out of range, e.g. month 13   *)
(*   "invalid"  no timestamp at all,      e.g. invalid-date                *)
(***************************************************************************)
Timestamp(kind, y, m, d, mins) ==
  [kind |-> kind, year |-> y, month |-> m, day |-> d, minutes |-> mins]

\* localDateTime.match(/^(\d{4})-(\d{2})-(\d{2})T(\d{2}):(\d{2}):(\d{2})$/)
matchesLocalPattern(str) == str.kind \in {"local", "overflow"}

\* !Number.isNaN(new Date(str).getTime())
dateParses(str) == str.kind \in {"local", "isoZ"}

\* the calendar date of a day number
CivilFromDayNumber(n) ==
  Const(CHOOSE yy \in (n \div 366)..((n \div 365) + 1) :
          DayNumber(yy, 1, 1) <= n /\ n < DayNumber(yy + 1, 1, 1), LAMBDA y :
    LET m == CHOOSE mm \in 1..12 :
               DayNumber(y, mm, 1) <= n /\ n < DayNumber(y, mm, 1) + DaysInMonth(y, mm)
    IN [year |-> y, month |-> m, day |-> n - DayNumber(y, m, 1) + 1])

\* new Date(str), read back with getFullYear() .. getMinutes(): a string
\* without zone is local time, one ending in Z is UTC and is shifted by the
\* UTC offset of the process
parseDate(str, processOffset) ==
  LET shift == IF str.kind = "isoZ" THEN processOffset ELSE 0
      total == DayNumber(str.year, str.month, str.day) * (24 * 60) + str.minutes + shift
  IN Const(CivilFromDayNumber(total \div (24 * 60)), LAMBDA civil :
       NewDate(civil.year, civil.month, civil.day, total % (24 * 60)))

\* date.toISOString(): the instant of the Date written in UTC, in the shape
\* YYYY-MM-DDTHH:mm:ss.sssZ
toISOString(date, processOffset) ==
  LET total == GetTimeMinutes(date) - processOffset
  IN Const(CivilFromDayNumber(total \div (24 * 60)), LAMBDA civil :
       Timestamp("isoZ", civil.year, civil.month, civil.day, total % (24 * 60)))

(***************************************************************************)
(* timezoneLookup.ts and the city table of InMemoryGeoClient.  Longitudes  *)
(* are in tenths of a degree.                                              *)
(***************************************************************************)
COUNTRY_TIMEZONE_MAP(country) ==
  CASE country = "CN" -> <<"Asia/Shanghai">>
    [] country = "HK" -> <<"Asia/Hong_Kong">>
    [] country = "TW" -> <<"Asia/Taipei">>
    [] country = "JP" -> <<"Asia/Tokyo">>
    [] country = "KR" -> <<"Asia/Seoul">>
    [] country = "SG" -> <<"Asia/Singapore">>
    [] country = "TH" -> <<"Asia/Bangkok">>
    [] country = "IN" -> <<"Asia/Kolkata">>
    [] country = "AU" -> <<"Australia/Sydney", "Australia/Melbourne", "Australia/Adelaide",
                           "Australia/Darwin", "Australia/Perth", "Australia/Brisbane">>
    [] country = "NZ" -> <<"Pacific/Auckland">>
    [] country = "US" -> <<"America/New_York", "America/Chicago", "America/Denver",
                           "America/Los_Angeles", "America/Phoenix", "America/Anchorage",
                           "Pacific/Honolulu">>
    [] country = "CA" -> <<"America/Toronto", "America/Vancouver", "America/Edmonton",
                           "America/Winnipeg", "America/Halifax">>
    [] country = "GB" -> <<"Europe/London">>
    [] country = "FR" -> <<"Europe/Paris">>
    [] country = "DE" -> <<"Europe/Berlin">>
    [] country = "IT" -> <<"Europe/Rome">>
    [] country = "ES" -> <<"Europe/Madrid">>
    [] country = "RU" -> <<"Europe/Moscow">>
    [] country = "BR" -> <<"America/Sao_Paulo", "America/Manaus", "America/Fortaleza">>
    [] country = "AR" -> <<"America/Argentina/Buenos_Aires">>
    [] country = "AE" -> <<"Asia/Dubai">>
    [] country = "IL" -> <<"Asia/Jerusalem">>
    [] country = "MX" -> <<"America/Mexico_City">>
    [] OTHER -> << >>

getUSTimezone(longitude) ==
  IF longitude < 0 - 1275 THEN "America/Anchorage"
  ELSE IF longitude >= 0 - 1275 /\ longitude < 0 - 1125 THEN "America/Los_Angeles"
  ELSE IF longitude >= 0 - 1125 /\ longitude < 0 - 975 THEN "America/Denver"
  ELSE IF longitude >= 0 - 975 /\ longitude < 0 - 825 THEN "America/Chicago"
  ELSE IF longitude >= 0 - 825 /\ longitude < 0 - 675 THEN "America/New_York"
  ELSE "America/New_York"

getChinaTimezone(longitude) == "Asia/Shanghai"

getAustraliaTimezone(longitude) ==
  IF longitude >= 1130 /\ longitude < 1300 THEN "Australia/Perth"
  ELSE IF longitude >= 1300 /\ longitude < 1420 THEN "Australia/Darwin"
  ELSE IF longitude >= 1420 /\ longitude < 1500 THEN "Australia/Brisbane"
  ELSE IF longitude >= 1500 /\ longitude < 1550 THEN "Australia/Sydney"
  ELSE "Australia/Adelaide"

\* country codes are written in upper case here
inferTimezone(countryCode, longitude) ==
  IF countryCode = "US" THEN getUSTimezone(longitude)
  ELSE IF countryCode = "CN" THEN getChinaTimezone(longitude)
  ELSE IF countryCode = "AU" THEN getAustraliaTimezone(longitude)
  ELSE IF countryCode = "CA"
    THEN (IF longitude < 0 - 850 THEN "America/Toronto"
          ELSE IF longitude < 0 - 1000 THEN "America/Winnipeg"
          ELSE IF longitude < 0 - 1150 THEN "America/Edmonton"
          ELSE "America/Vancouver")
  ELSE IF countryCode = "BR"
    THEN (IF longitude < 0 - 450 THEN "America/Sao_Paulo"
          ELSE IF longitude < 0 - 600 THEN "America/Manaus"
          ELSE "America/Fortaleza")
  ELSE IF Len(COUNTRY_TIMEZONE_MAP(countryCode)) > 0
    THEN COUNTRY_TIMEZONE_MAP(countryCode)[1]
  ELSE LET utcOffset == (longitude + 75) \div 150    \* Math.round(longitude / 15)
       IN "Etc/GMT" \o (IF utcOffset > 0 THEN "-" ELSE "+") \o ToString(Abs(utcOffset))

\* the timezones of the built-in city table
cityTimezones ==
  {"Asia/Shanghai", "Asia/Hong_Kong", "Asia/Taipei", "America/New_York",
   "America/Los_Angeles", "America/Chicago", "Europe/London", "Europe/Paris",
   "Europe/Berlin", "Europe/Rome", "Europe/Moscow", "Asia/Tokyo", "Asia/Seoul",
   "Asia/Singapore", "Asia/Bangkok", "Asia/Kolkata", "Australia/Sydney",
   "Australia/Melbourne", "Pacific/Auckland", "America/Sao_Paulo",
   "America/Argentina/Buenos_Aires", "Asia/Dubai", "Asia/Jerusalem"}

(***************************************************************************)
(* solarTime.ts.  Longitudes are in tenths of a degree and corrections in  *)
(* tenths of a minute.                                                     *)
(***************************************************************************)
timezoneMeridians(timezone) ==
  CASE timezone \in {"Asia/Shanghai", "Asia/Hong_Kong", "Asia/Taipei"} -> 1200
    [] timezone \in {"Asia/Tokyo", "Asia/Seoul"} -> 1350
    [] timezone \in {"Asia/Singapore", "Asia/Bangkok"} -> 1050
    [] timezone = "Asia/Kolkata" -> 825
    [] timezone \in {"Australia/Sydney", "Australia/Melbourne"} -> 1500
    [] timezone = "Pacific/Auckland" -> 1800
    [] timezone = "America/New_York" -> 0 - 750
    [] timezone = "America/Chicago" -> 0 - 900
    [] timezone = "America/Los_Angeles" -> 0 - 1200
    [] timezone = "America/Sao_Paulo" -> 0 - 450
    [] timezone = "America/Argentina/Buenos_Aires" -> 0 - 600
    [] timezone = "Europe/London" -> 0
    [] timezone \in {"Europe/Paris", "Europe/Berlin", "Europe/Rome"} -> 150
    [] timezone = "Europe/Moscow" -> 375
    [] timezone = "Asia/Dubai" -> 600
    [] timezone = "Asia/Jerusalem" -> 350
    [] OTHER -> "undefined"

\* the keys of timezoneMeridians
KnownTimezones ==
  {"Asia/Shanghai", "Asia/Hong_Kong", "Asia/Taipei", "Asia/Tokyo", "Asia/Seoul",
   "Asia/Singapore", "Asia/Bangkok", "Asia/Kolkata", "Australia/Sydney",
   "Australia/Melbourne", "Pacific/Auckland", "America/New_York", "America/Chicago",
   "America/Los_Angeles", "America/Sao_Paulo", "America/Argentina/Buenos_Aires",
   "Europe/London", "Europe/Paris", "Europe/Berlin", "Europe/Rome", "Europe/Moscow",
   "Asia/Dubai", "Asia/Jerusalem"}

\* timezoneMeridians[timezone] ?? 0
getTimezoneCentralMeridian(timezone) ==
  IF timezone \in KnownTimezones THEN timezoneMeridians(timezone) ELSE 0

\* a missing or empty timezone is falsy
isFalsyString(str) == str = "undefined" \/ str = ""

minutesPerDegree == 4

computeLongitudeCorrectionMinutesSignFlipped(longitude, timezone) ==
  (getTimezoneCentralMeridian(timezone) - longitude) * minutesPerDegree

computeLongitudeCorrectionMinutes(longitude, timezone) ==
  LET centralMeridian ==
        IF ~isFalsyString(timezone)
        THEN getTimezoneCentralMeridian(timezone)
        ELSE ((longitude + 75) \div 150) * 150   \* Math.round(longitude / 15) * 15
      deltaLongitude == longitude - centralMeridian
  IN deltaLongitude * minutesPerDegree

dstTimezones ==
  {"America/New_York", "America/Chicago", "America/Denver", "America/Los_Angeles",
   "America/Phoenix", "Europe/London", "Europe/Paris", "Europe/Berlin", "Europe/Rome"}

\* toTrueSolarTime takes one hour off the instant exactly when this is true
isDaylightSavingTime(year, month, day, timezone) ==
  IF timezone \notin dstTimezones THEN FALSE
  ELSE IF timezone = "America/Phoenix" THEN FALSE
  ELSE month >= 3 /\ month <= 10

\* the checks of toTrueSolarTime come in this order: timezone, pattern, Date
toTrueSolarTime(localDateTime, geoResult) ==
  IF isFalsyString(geoResult.timezone)
  THEN Throw(<<"Timezone", "is", "required", "for", "True", "Solar", "Time", "calculation">>)
  ELSE IF ~matchesLocalPattern(localDateTime)
  THEN Throw(<<"INVALID", "DATE", "FORMAT">>)
  ELSE IF ~geoResult.hasCoordinates
  THEN Throw(<<"TypeError:", "Cannot", "read", "properties", "of", "undefined">>)
  ELSE Return([longitudeCorrectionMinutes |->
                 computeLongitudeCorrectionMinutes(geoResult.longitude, geoResult.timezone),
               timezone |-> geoResult.timezone,
               applied |-> TRUE])

fallbackSolarTimeStrict(localDateIso, processOffset) ==
  IF ~(dateParses(localDateIso) /\ matchesLocalPattern(localDateIso))
  THEN Throw(<<"INVALID", "DATE">>)
  ELSE Return([solarTimeIso |-> toISOString(parseDate(localDateIso, processOffset), processOffset),
               longitudeCorrectionMinutes |-> 0,
               equationOfTimeMinutes |-> 0,
               applied |-> FALSE,
               warning |-> <<"True", "Solar", "Time", "not", "applied", "(Location", "unknown).">>])

fallbackSolarTime(localDateIso, processOffset) ==
  IF ~dateParses(localDateIso)
  THEN Throw(<<"INVALID", "DATE">>)
  ELSE Return([solarTimeIso |-> toISOString(parseDate(localDateIso, processOffset), processOffset),
               longitudeCorrectionMinutes |-> 0,
               equationOfTimeMinutes |-> 0,
               applied |-> FALSE,
               warning |-> <<"True", "Solar", "Time", "not", "applied", "(Location", "unknown).">>])

(***************************************************************************)
(* utils.ts / calculationEngine: the four pillars by the engine's own      *)
(* arithmetic.                                                             *)
(***************************************************************************)
monthBranchMap ==
  <<"Yin", "Mao", "Chen", "Si", "Wu", "Wei", "Shen", "You", "Xu", "Hai", "Zi", "Chou">>

Min(a, b) == IF a < b THEN a ELSE b
Max(a, b) == IF a > b THEN a ELSE b

getMonthBranch(month) ==
  LET index  == Max(0, Min(11, month - 1))
      branch == ArrayAt(monthBranchMap, index)
  IN IF branch = "undefined"
     THEN Throw(<<"Invalid", "month", "branch", "index">>)
     ELSE Return(branch)

\* monthBranchToLunarMonth: Yin is 0, ..., Chou is 11
monthBranchToLunarMonth(monthBranch) == IndexOf(monthBranchMap, monthBranch)

monthStemMap ==
  << <<2, 3, 4, 5, 6, 7, 8, 9, 0, 1, 2, 3>>,
     <<4, 5, 6, 7, 8, 9, 0, 1, 2, 3, 4, 5>>,
     <<6, 7, 8, 9, 0, 1, 2, 3, 4, 5, 6, 7>>,
     <<8, 9, 0, 1, 2, 3, 4, 5, 6, 7, 8, 9>>,
     <<0, 1, 2, 3, 4, 5, 6, 7, 8, 9, 0, 1>> >>

\* getMonthStem reading the row at the index of the branch among the twelve
\* branches (Zi first) and not at its month position (Yin first)
getMonthStemBranchOrder(monthBranch, yearStem) ==
  LET yearIndex       == IndexOf(HEAVENLY_STEMS, yearStem)
      lunarMonthIndex == IndexOf(EARTHLY_BRANCHES, monthBranch)
      groupIndex      == JsRem(yearIndex, 5)
  IN IF lunarMonthIndex = 0 - 1 THEN Throw(<<"Invalid", "month", "branch">>)
     ELSE IF groupIndex < 0 THEN Throw(<<"Invalid", "group", "index">>)
     ELSE Return(ArrayAt(HEAVENLY_STEMS, monthStemMap[groupIndex + 1][lunarMonthIndex + 1]))

getMonthStem(monthBranch, yearStem) ==
  LET yearIndex       == IndexOf(HEAVENLY_STEMS, yearStem)
      lunarMonthIndex == monthBranchToLunarMonth(monthBranch)
      groupIndex      == JsRem(yearIndex, 5)
  IN IF lunarMonthIndex = 0 - 1 THEN Throw(<<"Invalid", "month", "branch">>)
     ELSE IF groupIndex < 0 THEN Throw(<<"Invalid", "group", "index">>)
     ELSE Return(ArrayAt(HEAVENLY_STEMS, monthStemMap[groupIndex + 1][lunarMonthIndex + 1]))

\* the day pillar of the base date 1924-02-05
baseDate == NewDate(1924, 2, 5, 0)
stemOffset == 0
branchOffset == 2

\* Both dates are local midnights of the process.  offsetChange is what the
\* UTC offset of the process on the date is ahead of its offset on the base
\* date, in minutes (60 on a date with daylight saving time): the local
\* midnight is that much earlier, and Math.floor rounds the quotient down.
getDayPillar(date, offsetChange) ==
  LET daysDiff    == ((DayNumber(date.year, date.month, date.day)
                       - DayNumber(baseDate.year, baseDate.month, baseDate.day)) * (24 * 60)
                      - offsetChange) \div (24 * 60)
      stemIndex   == JsRem(JsRem(daysDiff + stemOffset, 10) + 10, 10)
      branchIndex == JsRem(JsRem(daysDiff + branchOffset, 12) + 12, 12)
      stem        == ArrayAt(HEAVENLY_STEMS, stemIndex)
      branch      == ArrayAt(EARTHLY_BRANCHES, branchIndex)
  IN IF stem = "undefined" \/ branch = "undefined"
     THEN Throw(<<"Invalid", "day", "pillar">>)
     ELSE Return([stem |-> stem, branch |-> branch])

hourStemMap ==
  << <<0, 1, 2, 3, 4, 5, 6, 7, 8, 9, 0, 1>>,
     <<2, 3, 4, 5, 6, 7, 8, 9, 0, 1, 2, 3>>,
     <<4, 5, 6, 7, 8, 9, 0, 1, 2, 3, 4, 5>>,
     <<6, 7, 8, 9, 0, 1, 2, 3, 4, 5, 6, 7>>,
     <<8, 9, 0, 1, 2, 3, 4, 5, 6, 7, 8, 9>> >>

getHourStem(hourBranch, dayStem) ==
  LET dayIndex   == IndexOf(HEAVENLY_STEMS, dayStem)
      hourIndex  == IndexOf(EARTHLY_BRANCHES, hourBranch)
      groupIndex == JsRem(dayIndex, 5)
  IN IF groupIndex < 0 THEN Throw(<<"Invalid", "group", "index">>)
     ELSE IF hourIndex < 0 THEN Throw(<<"Invalid", "hour", "index">>)
     ELSE Return(ArrayAt(HEAVENLY_STEMS, hourStemMap[groupIndex + 1][hourIndex + 1]))

\* hourToBranch with two-hour periods that start at the even hours
hourToBranchEvenHours(hour) ==
  LET adjustedHour == IF hour = 0 THEN 24 ELSE hour
      branchIndex  == JsRem(adjustedHour \div 2, 12)
      branch       == ArrayAt(EARTHLY_BRANCHES, branchIndex)
  IN IF branch = "undefined"
     THEN Throw(<<"Invalid", "hour", "branch", "index">>)
     ELSE Return(branch)

hourToBranch(hour) ==
  LET adjustedHour == IF hour = 0 THEN 24 ELSE hour
      branchIndex  == JsRem((adjustedHour + 1) \div 2, 12)
      branch       == ArrayAt(EARTHLY_BRANCHES, branchIndex)
  IN IF branch = "undefined"
     THEN Throw(<<"Invalid", "hour", "branch", "index">>)
     ELSE Return(branch)

\* a pillar with its hidden stems classified against dayMaster
buildPillar(stem, branch, dayMaster) ==
  Const(mapHiddenStems(branch, dayMaster), LAMBDA hiddenStems :
    IF hiddenStems.threw THEN hiddenStems
    ELSE Return([heavenlyStem |-> stem, earthlyBranch |-> branch,
                 hiddenStems |-> hiddenStems.value]))

\* the first of the outcomes that threw, or the value built from all of them
FirstThrow(outcomes) ==
  outcomes[CHOOSE i \in 1..Len(outcomes) :
             outcomes[i].threw /\ \A j \in 1..(i - 1) : ~outcomes[j].threw]

AnyThrew(outcomes) == \E i \in 1..Len(outcomes) : outcomes[i].threw

\* the four pillars from the stems and branches found so far
buildPillars(year, month, day, hour, dayMaster) ==
  Const(<<buildPillar(year[1], year[2], dayMaster),
          buildPillar(month[1], month[2], dayMaster),
          buildPillar(day[1], day[2], dayMaster),
          buildPillar(hour[1], hour[2], dayMaster)>>, LAMBDA built :
    IF AnyThrew(built) THEN FirstThrow(built)
    ELSE Return([year |-> built[1].value, month |-> built[2].value,
                 day |-> built[3].value, hour |-> built[4].value]))

buildFourPillars(solarDate, dayMaster) ==
  Const(<<getYearStem(solarDate.year), getYearBranch(solarDate.year),
          getMonthBranch(solarDate.month), getDayPillar(solarDate, 0),
          hourToBranch(solarDate.minutes \div 60)>>, LAMBDA first :
    IF AnyThrew(first) THEN FirstThrow(first)
    ELSE LET yearStem    == first[1].value
             yearBranch  == first[2].value
             monthBranch == first[3].value
             dayPillar   == first[4].value
             hourBranch  == first[5].value
         IN Const(<<getMonthStem(monthBranch, yearStem),
                    getHourStem(hourBranch, dayPillar.stem)>>, LAMBDA second :
              IF AnyThrew(second) THEN FirstThrow(second)
              ELSE buildPillars(<<yearStem, yearBranch>>,
                                <<second[1].value, monthBranch>>,
                                <<dayPillar.stem, dayPillar.branch>>,
                                <<second[2].value, hourBranch>>,
                                dayMaster)))

(***************************************************************************)
(* baziLibraryAdapter.ts: the external calendar library answers with the   *)
(* Chinese characters of the four pillars (written here by code point),    *)
(* or is unavailable.                                                      *)
(***************************************************************************)
STEM_MAP(ch) ==
  CASE ch = "U+7532" -> "Jia"
    [] ch = "U+4E59" -> "Yi"
    [] ch = "U+4E19" -> "Bing"
    [] ch = "U+4E01" -> "Ding"
    [] ch = "U+620A" -> "Wu"
    [] ch = "U+5DF1" -> "Ji"
    [] ch = "U+5E9A" -> "Geng"
    [] ch = "U+8F9B" -> "Xin"
    [] ch = "U+58EC" -> "Ren"
    [] ch = "U+7678" -> "Gui"
    [] OTHER -> "undefined"

BRANCH_MAP(ch) ==
  CASE ch = "U+5B50" -> "Zi"
    [] ch = "U+4E11" -> "Chou"
    [] ch = "U+5BC5" -> "Yin"
    [] ch = "U+536F" -> "Mao"
    [] ch = "U+8FB0" -> "Chen"
    [] ch = "U+5DF3" -> "Si"
    [] ch = "U+5348" -> "Wu"
    [] ch = "U+672A" -> "Wei"
    [] ch = "U+7533" -> "Shen"
    [] ch = "U+9149" -> "You"
    [] ch = "U+620C" -> "Xu"
    [] ch = "U+4EA5" -> "Hai"
    [] OTHER -> "undefined"

convertStem(ch) ==
  IF STEM_MAP(ch) = "undefined" THEN Throw(<<"Unknown", "stem">>) ELSE Return(STEM_MAP(ch))

convertBranch(ch) ==
  IF BRANCH_MAP(ch) = "undefined" THEN Throw(<<"Unknown", "branch">>) ELSE Return(BRANCH_MAP(ch))

\* library is "unavailable" or the answer [year, month, day, time], each a
\* pair <<stem character, branch character>>
calculateFourPillarsWithLibrary(library) ==
  IF library.unavailable
  THEN Throw(<<"cannot", "use", "bazi-calculator-by-alvamind">>)
  ELSE LET p == library.pillars
       IN Const(<<convertStem(p.year[1]), convertBranch(p.year[2]),
                  convertStem(p.month[1]), convertBranch(p.month[2]),
                  convertStem(p.day[1]), convertBranch(p.day[2]),
                  convertStem(p.time[1]), convertBranch(p.time[2])>>, LAMBDA converted :
            IF AnyThrew(converted) THEN FirstThrow(converted)
            ELSE buildPillars(<<converted[1].value, converted[2].value>>,
                              <<converted[3].value, converted[4].value>>,
                              <<converted[5].value, converted[6].value>>,
                              <<converted[7].value, converted[8].value>>,
                              converted[5].value))

(***************************************************************************)
(* starGods.ts                                                             *)
(***************************************************************************)
taoHuaMap(branch) ==
  CASE branch \in {"Shen", "Zi", "Chen"} -> "You"
    [] branch \in {"Yin", "Wu", "Xu"}    -> "Mao"
    [] branch \in {"Si", "You", "Chou"}  -> "Wu"
    [] branch \in {"Hai", "Mao", "Wei"}  -> "Zi"
    [] OTHER -> "undefined"

calculateTaoHua(fourPillars) ==
  (IF fourPillars.month.earthlyBranch = taoHuaMap(fourPillars.year.earthlyBranch)
   THEN << [key |-> "TaoHua", pillar |-> "month"] >> ELSE << >>)
  \o (IF fourPillars.hour.earthlyBranch = taoHuaMap(fourPillars.day.earthlyBranch)
      THEN << [key |-> "TaoHua", pillar |-> "hour"] >> ELSE << >>)

guiRenMap(stem) ==
  CASE stem \in {"Jia", "Wu"}    -> {"Chou", "Wei"}
    [] stem \in {"Yi", "Ji"}     -> {"Zi", "Shen"}
    [] stem \in {"Bing", "Ding"} -> {"Hai", "You"}
    [] stem \in {"Geng", "Xin"}  -> {"Yin", "Wu"}
    [] stem \in {"Ren", "Gui"}   -> {"Mao", "Si"}
    [] OTHER -> {}

RECURSIVE guiRenFrom(_, _)
guiRenFrom(fourPillars, k) ==
  IF k > Len(pillarKeys) THEN << >>
  ELSE (IF fourPillars[pillarKeys[k]].earthlyBranch
             \in guiRenMap(fourPillars.day.heavenlyStem)
        THEN << [key |-> "TianYiGuiRen", pillar |-> pillarKeys[k]] >> ELSE << >>)
       \o guiRenFrom(fourPillars, k + 1)

calculateTianYiGuiRen(fourPillars) == guiRenFrom(fourPillars, 1)

calculateStarGods(fourPillars) ==
  calculateTaoHua(fourPillars) \o calculateTianYiGuiRen(fourPillars)

(***************************************************************************)
(* calculationEngine: calculateChart.                                      *)
(***************************************************************************)
\* the year, month, day, hour and minute calculateChart works with
chartDate(input, processOffset) ==
  IF input.solarTime.applied
  THEN IF matchesLocalPattern(input.solarTime.solarTimeIso)
       THEN NewDate(input.solarTime.solarTimeIso.year, input.solarTime.solarTimeIso.month,
                    input.solarTime.solarTimeIso.day, input.solarTime.solarTimeIso.minutes)
       ELSE parseDate(input.solarTime.solarTimeIso, processOffset)
  ELSE parseDate(input.birthDate, processOffset)

\* the catch branch: the engine's own arithmetic
simplifiedFourPillars(input, processOffset) ==
  Const(chartDate(input, processOffset), LAMBDA finalDate :
    Const(getDayPillar(finalDate, 0), LAMBDA dayPillar :
      IF dayPillar.threw THEN dayPillar
      ELSE Const(buildFourPillars(finalDate, dayPillar.value.stem), LAMBDA fourPillars :
             IF fourPillars.threw THEN fourPillars
             ELSE Return([fourPillars |-> fourPillars.value,
                          dayMaster |-> dayPillar.value.stem,
                          path |-> "simplified"]))))

\* try the library, on any error fall back to the engine's own arithmetic
chartFourPillars(input, library, processOffset) ==
  Const(calculateFourPillarsWithLibrary(library), LAMBDA fromLibrary :
    IF fromLibrary.threw
    THEN simplifiedFourPillars(input, processOffset)
    ELSE Return([fourPillars |-> fromLibrary.value,
                 dayMaster |-> fromLibrary.value.day.heavenlyStem,
                 path |-> "library"]))

\* calculateLuckPillars is called with five arguments: birthDate is undefined
calculateChart(input, library, processOffset) ==
  Const(chartFourPillars(input, library, processOffset), LAMBDA pillars :
    IF pillars.threw THEN pillars
    ELSE LET fourPillars == pillars.value.fourPillars
         IN Const(calculateLuckPillars(fourPillars.year.heavenlyStem,
                                       fourPillars.month.heavenlyStem,
                                       fourPillars.month.earthlyBranch,
                                       input.gender,
                                       pillars.value.dayMaster,
                                       undefinedDate), LAMBDA luckPillars :
              IF luckPillars.threw THEN luckPillars
              ELSE Return([fourPillars |-> fourPillars,
                           luckPillars |-> luckPillars.value,
                           interactionMatrix |-> calculateInteractionMatrix(fourPillars),
                           starGods |-> calculateStarGods(fourPillars)])))

(***************************************************************************)
(* POST /api/v1/report/init.  The two language-model steps after the chart *)
(* are an outcome of the environment (llmFails); verdict and report are    *)
(* left out of the response data.  The timestamp toTrueSolarTime hands on  *)
(* (corrected) is given with the call.                                     *)
(***************************************************************************)
\* BirthInputSchema.parse
validateBirthInput(body) ==
  IF body.gender \in {"male", "female"} /\ dateParses(body.birthDate) /\ body.birthCity # ""
  THEN Return(body)
  ELSE Throw(<<"ZodError">>)

createSuccessResponse(data) == [success |-> TRUE, data |-> data]

createErrorResponse(code, message, retryable) ==
  [success |-> FALSE, error |-> [code |-> code, message |-> message, retryable |-> retryable]]

\* NextResponse.json(body, {status})
NextResponse(body, status) == [status |-> status, body |-> body]

\* steps 1 and 2 of the handler: geo is what searchCity and
\* resolveCoordinates answer
routeSolarTime(birthInput, geo, processOffset) ==
  IF geo.suggestions
  THEN IF ~geo.resolves
       THEN fallbackSolarTime(birthInput.birthDate, processOffset)
       ELSE Const(IF geo.result.hasCoordinates
                  THEN toTrueSolarTime(birthInput.birthDate, geo.result)
                  ELSE fallbackSolarTime(birthInput.birthDate, processOffset), LAMBDA inner :
              IF inner.threw
              THEN fallbackSolarTime(birthInput.birthDate, processOffset)
              ELSE inner)
  ELSE fallbackSolarTime(birthInput.birthDate, processOffset)

POST(body, geo, corrected, library, processOffset, llmFails) ==
  Const(validateBirthInput(body), LAMBDA birthInput :
    IF birthInput.threw
    THEN NextResponse(createErrorResponse("VALIDATION_ERROR", birthInput.message, FALSE), 400)
    ELSE Const(routeSolarTime(birthInput.value, geo, processOffset), LAMBDA solarTime :
      IF solarTime.threw
      THEN NextResponse(createErrorResponse("INTERNAL_ERROR", solarTime.message, TRUE), 500)
      ELSE Const(calculateChart([gender |-> birthInput.value.gender,
                                 birthDate |-> birthInput.value.birthDate,
                                 solarTime |-> [applied |-> solarTime.value.applied,
                                                solarTimeIso |->
                                                  IF solarTime.value.applied
                                                  THEN corrected
                                                  ELSE solarTime.value.solarTimeIso]],
                                library, processOffset), LAMBDA chart :
        IF chart.threw
        THEN NextResponse(createErrorResponse("INTERNAL_ERROR", chart.message, TRUE), 500)
        ELSE IF llmFails
        THEN NextResponse(createErrorResponse("INTERNAL_ERROR", <<"LLM">>, TRUE), 500)
        ELSE NextResponse(createSuccessResponse([chart |-> chart.value,
                                                 solarTime |-> solarTime.value]), 200))))

(***************************************************************************)
(* profileStorage: the list of profiles kept in localStorage under         *)
(* STORAGE_KEY, in a browser (window is defined, setItem succeeds).        *)
(* stored is the list getProfiles() reads, now is Date.now() and the       *)
(* timestamps made from it, random the random part of a new id.  Each      *)
(* function yields the list it leaves in localStorage and its outcome.     *)
(***************************************************************************)
MAX_PROFILES == 5

\* a profile without reportData: the report is known by the time it was
\* generated at, and -1 stands for none
undefinedReportData == [generatedAt |-> 0 - 1]

\* profiles.findIndex(Test), counted from 0, -1 when no profile passes
findIndex(profiles, Test(_)) ==
  IF \E i \in 1..Len(profiles) : Test(profiles[i])
  THEN (CHOOSE i \in 1..Len(profiles) :
          Test(profiles[i]) /\ \A j \in 1..(i - 1) : ~Test(profiles[j])) - 1
  ELSE 0 - 1

\* profiles.sort((a, b) => new Date(b.updatedAt).getTime() - new
\* Date(a.updatedAt).getTime()): latest first, stable
RECURSIVE sortInsert(_, _, _)
sortInsert(sorted, p, i) ==
  IF i > Len(sorted) THEN Append(sorted, p)
  ELSE IF sorted[i].updatedAt < p.updatedAt
       THEN SubSeq(sorted, 1, i - 1) \o <<p>> \o SubSeq(sorted, i, Len(sorted))
       ELSE sortInsert(sorted, p, i + 1)

RECURSIVE sortFrom(_, _, _)
sortFrom(profiles, i, sorted) ==
  IF i > Len(profiles) THEN sorted
  ELSE sortFrom(profiles, i + 1, sortInsert(sorted, profiles[i], 1))

sortByUpdatedAt(profiles) == sortFrom(profiles, 1, << >>)

saveProfileDropsLatest(profile, stored, clock, random) ==
  LET newProfile == [id |-> <<"profile", clock, random>>,
                     name |-> profile.name, gender |-> profile.gender,
                     birthDate |-> profile.birthDate, birthCity |-> profile.birthCity,
                     createdAt |-> clock, updatedAt |-> clock, reportData |-> undefinedReportData]
      existingIndex == findIndex(stored, LAMBDA p : /\ p.gender = profile.gender
                                                    /\ p.birthDate = profile.birthDate
                                                    /\ p.birthCity = profile.birthCity)
      profiles == IF existingIndex >= 0
                  THEN [stored EXCEPT ![existingIndex + 1] =
                          [newProfile EXCEPT !.id = stored[existingIndex + 1].id,
                                             !.createdAt = stored[existingIndex + 1].createdAt,
                                             !.reportData = stored[existingIndex + 1].reportData]]
                  ELSE IF Len(stored) + 1 > MAX_PROFILES
                  THEN <<newProfile>> \o SubSeq(stored, 2, Len(stored))
                  ELSE <<newProfile>> \o stored
      sorted == sortByUpdatedAt(profiles)
  IN [stored |-> sorted,
      outcome |-> Return(IF existingIndex >= 0 THEN sorted[existingIndex + 1] ELSE newProfile)]

\* the update branch returns profiles[existingIndex] of the sorted list
saveProfile(profile, stored, clock, random) ==
  LET newProfile == [id |-> <<"profile", clock, random>>,
                     name |-> profile.name, gender |-> profile.gender,
                     birthDate |-> profile.birthDate, birthCity |-> profile.birthCity,
                     createdAt |-> clock, updatedAt |-> clock, reportData |-> undefinedReportData]
      existingIndex == findIndex(stored, LAMBDA p : /\ p.gender = profile.gender
                                                    /\ p.birthDate = profile.birthDate
                                                    /\ p.birthCity = profile.birthCity)
      profiles == IF existingIndex >= 0
                  THEN [stored EXCEPT ![existingIndex + 1] =
                          [newProfile EXCEPT !.id = stored[existingIndex + 1].id,
                                             !.createdAt = stored[existingIndex + 1].createdAt,
                                             !.reportData = stored[existingIndex + 1].reportData]]
                  ELSE SubSeq(<<newProfile>> \o stored, 1, Min(Len(stored) + 1, MAX_PROFILES))
      sorted == sortByUpdatedAt(profiles)
  IN [stored |-> sorted,
      outcome |-> Return(IF existingIndex >= 0 THEN sorted[existingIndex + 1] ELSE newProfile)]

saveReportData(profileId, stored, clock) ==
  LET index == findIndex(stored, LAMBDA p : p.id = profileId)
  IN IF index = 0 - 1
     THEN [stored |-> stored, outcome |-> Return(FALSE)]
     ELSE [stored |-> sortByUpdatedAt(
                        [stored EXCEPT ![index + 1] =
                           [@ EXCEPT !.reportData = [generatedAt |-> clock],
                                     !.updatedAt = clock]]),
           outcome |-> Return(TRUE)]

\* updates holds the fields to change
updateProfile(id, updates, stored, clock) ==
  LET index == findIndex(stored, LAMBDA p : p.id = id)
  IN IF index = 0 - 1
     THEN [stored |-> stored, outcome |-> Throw(<<"Profile", "with", "id", "not", "found">>)]
     ELSE LET existingProfile == stored[index + 1]
              hasBirthInfoChanged ==
                \E f \in DOMAIN updates \cap {"birthDate", "birthCity", "gender"} :
                  updates[f] # existingProfile[f]
              updatedProfile ==
                [f \in DOMAIN existingProfile |->
                   CASE f = "updatedAt" -> clock
                     [] f = "reportData" ->
                          IF hasBirthInfoChanged THEN undefinedReportData ELSE existingProfile.reportData
                     [] f \in DOMAIN updates -> updates[f]
                     [] OTHER -> existingProfile[f]]
          IN [stored |-> sortByUpdatedAt([stored EXCEPT ![index + 1] = updatedProfile]),
              outcome |-> Return(updatedProfile)]

deleteProfile(id, stored) ==
  LET filtered == SelectSeq(stored, LAMBDA p : p.id # id)
  IN IF Len(filtered) = Len(stored)
     THEN [stored |-> stored, outcome |-> Return(FALSE)]
     ELSE [stored |-> filtered, outcome |-> Return(TRUE)]

\* localStorage.removeItem(STORAGE_KEY)
clearProfiles(stored) == [stored |-> << >>, outcome |-> Return("undefined")]

(***************************************************************************)
(* The inputs the functions are called with.                               *)
(***************************************************************************)
Genders == {"male", "female"}

Years ==
  (0 - MaxYearOffset)..MaxYearOffset \cup {1990 + k : k \in (0 - MaxYearOffset)..MaxYearOffset}

BirthYears == 1990..(1990 + MaxBirthYears - 1)

\* every day of the birth years, at midnight and at 14:30
BirthDates ==
  {NewDate(ymd[1], ymd[2], ymd[3], mins) :
     ymd \in {x \in BirthYears \X (1..12) \X (1..31) : x[3] <= DaysInMonth(x[1], x[2])},
     mins \in {0, 14 * 60 + 30}}

\* the births of the engine's tests: 1990-01-15 14:30 and 1990-01-15 08:30
TestBirthDates == {NewDate(1990, 1, 15, 14 * 60 + 30), NewDate(1990, 1, 15, 8 * 60 + 30)}

\* calculateLuckPillars is called with every year stem, month pillar and
\* gender for the births of the tests, and with every birth date for a yang
\* and a yin year and one month pillar; the day master is the day stem of
\* 1990-01-15 (Geng)
LuckInputs ==
  {[yearStem |-> ys, monthStem |-> ms, monthBranch |-> mb, gender |-> g, dayMaster |-> "Geng",
    birthDate |-> bd] :
     ys \in Stems, ms \in Stems, mb \in Branches, g \in Genders, bd \in TestBirthDates}
  \cup
  {[yearStem |-> ys, monthStem |-> "Ding", monthBranch |-> "Chou", gender |-> g,
    dayMaster |-> "Geng", birthDate |-> bd] :
     ys \in {"Geng", "Xin"}, g \in Genders, bd \in BirthDates}

\* every 7.5 degrees, every central meridian, and the longitudes of the tests
Longitudes ==
  {75 * k : k \in (0 - MaxLongitudeSteps)..MaxLongitudeSteps}
  \cup {timezoneMeridians(tz) : tz \in KnownTimezones}
  \cup {1164, 1215}

\* the countries of COUNTRY_TIMEZONE_MAP, and one it does not list
Countries ==
  {"CN", "HK", "TW", "JP", "KR", "SG", "TH", "IN", "AU", "NZ", "US", "CA", "GB", "FR",
   "DE", "IT", "ES", "RU", "BR", "AR", "AE", "IL", "MX", "ZZ"}

\* what resolveCoordinates can put into GeoResolutionResult.timezone
GeoTimezones ==
  cityTimezones \cup {inferTimezone(c, l) : c \in Countries, l \in Longitudes}

\* the zones of the meridian table, those of the geo resolver, a missing and
\* an empty zone
Timezones == KnownTimezones \cup GeoTimezones \cup {"undefined", ""}

TimestampStrings ==
  {Timestamp("local", b.year, b.month, b.day, b.minutes) :
     b \in {x \in BirthDates : x.day = 1 /\ x.minutes # 0} \cup TestBirthDates}
  \cup {Timestamp("isoZ", 2025, 1, 1, 8 * 60),
        Timestamp("overflow", 2025, 13, 45, 25 * 60 + 61),
        Timestamp("invalid", 0, 0, 0, 0)}

GeoResults ==
  {[timezone |-> tz, hasCoordinates |-> c, longitude |-> l] :
     tz \in Timezones, c \in BOOLEAN, l \in {0, 1164, 1215, 0 - 1050}}

\* what the external library may answer: nothing, the pillars of the
\* adapter's example, pillars with a character outside the tables, or the
\* pillars of 1990-01-15 14:30 (year Ji-Si, month Ding-Chou, day Geng-Chen,
\* hour Gui-Wei)
LibraryOutcomes ==
  {[unavailable |-> TRUE, pillars |-> << >>],
   [unavailable |-> FALSE,
    pillars |-> [year |-> <<"U+5DF1", "U+5DF3">>, month |-> <<"U+4E01", "U+536F">>,
                 day |-> <<"U+4E59", "U+4EA5">>, time |-> <<"U+5E9A", "U+8FB0">>]],
   [unavailable |-> FALSE,
    pillars |-> [year |-> <<"U+003F", "U+5DF3">>, month |-> <<"U+4E01", "U+536F">>,
                 day |-> <<"U+4E59", "U+4EA5">>, time |-> <<"U+5E9A", "U+8FB0">>]],
   [unavailable |-> FALSE,
    pillars |-> [year |-> <<"U+5DF1", "U+5DF3">>, month |-> <<"U+4E01", "U+4E11">>,
                 day |-> <<"U+5E9A", "U+8FB0">>, time |-> <<"U+7678", "U+672A">>]]}

\* the characters of the ten stems and the twelve branches, in cycle order
StemChars ==
  <<"U+7532", "U+4E59", "U+4E19", "U+4E01", "U+620A",
    "U+5DF1", "U+5E9A", "U+8F9B", "U+58EC", "U+7678">>

BranchChars ==
  <<"U+5B50", "U+4E11", "U+5BC5", "U+536F", "U+8FB0", "U+5DF3",
    "U+5348", "U+672A", "U+7533", "U+9149", "U+620C", "U+4EA5">>

\* answers the adapter is handed: those of LibraryOutcomes, and every day
\* stem with every year and hour branch
LibraryAnswers ==
  LibraryOutcomes \cup
  {[unavailable |-> FALSE,
    pillars |-> [year |-> <<"U+5DF1", BranchChars[yb]>>, month |-> <<"U+4E01", "U+536F">>,
                 day |-> <<StemChars[ds], "U+4EA5">>, time |-> <<"U+5E9A", BranchChars[hb]>>]] :
     ds \in 1..Len(StemChars), yb \in 1..Len(BranchChars), hb \in 1..Len(BranchChars)}

\* an earthly branch outside the closed set
UnknownBranch == "undefined"

\* the UTC offset of the server process, in minutes
ProcessOffsets == {0, 8 * 60}

\* the solar-time results calculateChart is handed: a corrected local string
\* or the fallback result
SolarTimes(birthDate) ==
  {[applied |-> TRUE, solarTimeIso |-> t] :
     t \in {x \in TimestampStrings : x.kind = "local"}}
  \cup {[applied |-> FALSE, solarTimeIso |-> birthDate]}

ChartInputs ==
  UNION {{[gender |-> g, birthDate |-> b, solarTime |-> st] :
            g \in Genders, st \in SolarTimes(b)} :
         b \in {x \in TimestampStrings : dateParses(x)}}

\* request bodies: a gender of the schema or another string, a timestamp
\* string, a city name or the empty string
RequestBodies ==
  {[gender |-> g, birthDate |-> t, birthCity |-> c] :
     g \in Genders \cup {"invalid"},
     t \in {x \in TimestampStrings : x.kind # "local" \/ (x.month = 1 /\ x.day = 15)},
     c \in {"", "Beijing"}}

\* what the geo client answers: no suggestion, a suggestion that does not
\* resolve (CITY_NOT_FOUND), or a resolution with or without coordinates
GeoOutcomes ==
  {[suggestions |-> FALSE, resolves |-> FALSE], [suggestions |-> TRUE, resolves |-> FALSE]}
  \cup {[suggestions |-> TRUE, resolves |-> TRUE, result |-> r] :
          r \in {x \in GeoResults :
                   x.timezone \in {"Asia/Shanghai", "undefined"} /\ x.longitude = 1164}}

\* the corrected timestamps toTrueSolarTime hands on
CorrectedTimes == {x \in TimestampStrings : x.kind = "local" /\ x.month = 1 /\ x.day = 15}

\* the birth dates profiles are saved with
BirthDateStrings ==
  <<"1990-01-15T14:30:00Z", "1991-01-15T14:30:00Z", "1992-01-15T14:30:00Z",
    "1993-01-15T14:30:00Z", "1994-01-15T14:30:00Z", "1995-01-15T14:30:00Z",
    "1996-01-15T14:30:00Z", "1997-01-15T14:30:00Z">>

\* the birth dates of the stored profiles and the first one of
\* BirthDateStrings that is not stored
BirthDatesFor(stored) ==
  LET used == {stored[i].birthDate : i \in 1..Len(stored)}
      free == {i \in 1..MaxBirthDates : BirthDateStrings[i] \notin used}
  IN used \cup {BirthDateStrings[i] : i \in {j \in free : \A k \in free : j <= k}}

ProfileNames == {"A", "B"}

\* the profiles saveProfile is handed
ProfileInputs(stored) ==
  {[name |-> n, gender |-> "male", birthDate |-> d, birthCity |-> "Beijing"] :
     n \in ProfileNames, d \in BirthDatesFor(stored)}

\* the random part of a new id: a string that no stored id has (ids are
\* only compared, so the first such string of the list stands for all)
RandomStrings == <<"k3x9q1", "a7q2m4", "m5t1z8", "r2d2c3", "h6j7b9", "w4e5n6">>

RandomSuffixes(stored) ==
  LET free == {i \in 1..Len(RandomStrings) :
                 \A j \in 1..Len(stored) : stored[j].id[3] # RandomStrings[i]}
  IN {RandomStrings[i] : i \in {j \in free : \A k \in free : j <= k}}

\* the ids of the stored profiles and one that is not stored
ProfileIds(stored) ==
  {stored[i].id : i \in 1..Len(stored)} \cup {<<"profile", 0 - 1, "missing">>}

\* the changes updateProfile is handed: a name, or a birth date that is not
\* stored
ProfileUpdates(stored) ==
  {[name |-> n] : n \in ProfileNames}
  \cup {[birthDate |-> d] :
          d \in BirthDatesFor(stored) \ {stored[i].birthDate : i \in 1..Len(stored)}}

\* Inputs that fill the list to its cap: a call names the least recently
\* updated profile (the last of the list) or one that is not stored, under
\* one name.
LruBirthDates(stored) ==
  LET used == {stored[i].birthDate : i \in 1..Len(stored)}
      free == {i \in 1..MaxLruBirthDates : BirthDateStrings[i] \notin used}
  IN {stored[i].birthDate : i \in {Len(stored)} \ {0}}
     \cup {BirthDateStrings[i] : i \in {j \in free : \A k \in free : j <= k}}

LruProfileInputs(stored) ==
  {[name |-> "A", gender |-> "male", birthDate |-> d, birthCity |-> "Beijing"] :
     d \in LruBirthDates(stored)}

LruProfileIds(stored) ==
  {stored[i].id : i \in {Len(stored)} \ {0}} \cup {<<"profile", 0 - 1, "missing">>}

\* the dates getDayPillar is called with: MaxEpochDays days each side of
\* the base date, the births, and 1989-03-16
EpochDates ==
  {Const(CivilFromDayNumber(DayNumber(baseDate.year, baseDate.month, baseDate.day) + k),
         LAMBDA civil : NewDate(civil.year, civil.month, civil.day, 0)) :
     k \in (0 - MaxEpochDays)..MaxEpochDays}
  \cup BirthDates \cup {NewDate(1989, 3, 16, 8 * 60)}

\* what the UTC offset of the process on a date can be ahead of its offset
\* on 1924-02-05: nothing, or in a later year the hour of a daylight saving
\* time or of a zone that moved east
OffsetChanges(date) == IF date.year > baseDate.year THEN {0, 60} ELSE {0}

\* the solar dates buildFourPillars is handed: the births, and for each of
\* MaxPillarYears years, before and after the base date of the day pillar,
\* one day at every clock hour
FirstPillarYear == 1900

PillarDates ==
  BirthDates \cup TestBirthDates
  \cup {NewDate(y, 1 + (y % 12), 1 + (y % 28), 60 * h) :
          y \in FirstPillarYear..(FirstPillarYear + MaxPillarYears - 1), h \in 0..23}

\* a pillar as far as the interaction analyzer reads it
BranchOnly(branch) == [earthlyBranch |-> branch]

(***************************************************************************)
(* The state machine: an idle caller invokes one function; the state then  *)
(* holds the call until the caller takes the outcome.  localStorage is the *)
(* list of profiles stored, now the clock of the browser; the engine and   *)
(* the route touch neither.                                                *)
(***************************************************************************)
Init ==
  /\ fn = "idle"
  /\ args = << >>
  /\ ret = << >>
  /\ localStorage = << >>
  /\ now = 0

\* the state after the call name(a) with outcome r
Called(name, a, r) ==
  /\ fn' = name
  /\ args' = a
  /\ ret' = r
  /\ UNCHANGED <<localStorage, now>>

\* the state after a call of the profile storage, which leaves stored in
\* localStorage
StorageCalled(name, a, result) ==
  /\ fn' = name
  /\ args' = a
  /\ ret' = result.outcome
  /\ localStorage' = result.stored
  /\ UNCHANGED now

CallCalculateTenGod ==
  /\ fn = "idle"
  /\ \E dayMaster \in Stems, otherStem \in Stems :
       Called("calculateTenGod", [dayMaster |-> dayMaster, otherStem |-> otherStem],
              calculateTenGod(dayMaster, otherStem))

CallGetYearStem ==
  /\ fn = "idle"
  /\ \E year \in Years : Called("getYearStem", [year |-> year], getYearStem(year))

CallGetYearBranch ==
  /\ fn = "idle"
  /\ \E year \in Years : Called("getYearBranch", [year |-> year], getYearBranch(year))

CallCalculateLuckPillars ==
  /\ fn = "idle"
  /\ \E in \in LuckInputs :
       Called("calculateLuckPillars", in,
              calculateLuckPillars(in.yearStem, in.monthStem, in.monthBranch, in.gender,
                                   in.dayMaster, in.birthDate))

CallCalculateInteractionMatrix ==
  /\ fn = "idle"
  /\ \E y \in Branches, m \in Branches, d \in Branches, h \in Branches :
       LET fourPillars == [year |-> BranchOnly(y), month |-> BranchOnly(m),
                           day |-> BranchOnly(d), hour |-> BranchOnly(h)]
       IN Called("calculateInteractionMatrix", [fourPillars |-> fourPillars],
                 calculateInteractionMatrix(fourPillars))

CallComputeLongitudeCorrectionMinutes ==
  /\ fn = "idle"
  /\ \E longitude \in Longitudes, timezone \in Timezones :
       Called("computeLongitudeCorrectionMinutes",
              [longitude |-> longitude, timezone |-> timezone],
              Return(computeLongitudeCorrectionMinutes(longitude, timezone)))

CallToTrueSolarTime ==
  /\ fn = "idle"
  /\ \E localDateTime \in TimestampStrings, geoResult \in GeoResults :
       Called("toTrueSolarTime", [localDateTime |-> localDateTime, geoResult |-> geoResult],
              toTrueSolarTime(localDateTime, geoResult))

CallFallbackSolarTime ==
  /\ fn = "idle"
  /\ \E localDateIso \in TimestampStrings, processOffset \in ProcessOffsets :
       Called("fallbackSolarTime",
              [localDateIso |-> localDateIso, processOffset |-> processOffset],
              fallbackSolarTime(localDateIso, processOffset))

CallGetHiddenStemsForBranch ==
  /\ fn = "idle"
  /\ \E branch \in Branches \cup {UnknownBranch} :
       Called("getHiddenStemsForBranch", [branch |-> branch],
              Return(getHiddenStemsForBranch(branch)))

CallGetMonthStem ==
  /\ fn = "idle"
  /\ \E monthBranch \in Branches, yearStem \in Stems :
       Called("getMonthStem", [monthBranch |-> monthBranch, yearStem |-> yearStem],
              getMonthStem(monthBranch, yearStem))

CallHourToBranch ==
  /\ fn = "idle"
  /\ \E hour \in 0..23 :
       Called("hourToBranch", [hour |-> hour], hourToBranch(hour))

CallGetHourStem ==
  /\ fn = "idle"
  /\ \E hourBranch \in Branches, dayStem \in Stems :
       Called("getHourStem", [hourBranch |-> hourBranch, dayStem |-> dayStem],
              getHourStem(hourBranch, dayStem))

\* the annotator reads the four branches and the stem of the day pillar
CallCalculateStarGods ==
  /\ fn = "idle"
  /\ \E y \in Branches, m \in Branches, d \in Branches, h \in Branches, dayStem \in Stems :
       LET fourPillars == [year |-> BranchOnly(y), month |-> BranchOnly(m),
                           day |-> [earthlyBranch |-> d, heavenlyStem |-> dayStem],
                           hour |-> BranchOnly(h)]
       IN Called("calculateStarGods", [fourPillars |-> fourPillars],
                 calculateStarGods(fourPillars))

CallGetDayPillar ==
  /\ fn = "idle"
  /\ \E date \in EpochDates :
     \E offsetChange \in OffsetChanges(date) :
       Called("getDayPillar", [date |-> date, offsetChange |-> offsetChange],
              getDayPillar(date, offsetChange))

\* as calculateChart calls it: the day master is the stem of the day pillar;
\* the process keeps one UTC offset all year
CallBuildFourPillars ==
  /\ fn = "idle"
  /\ \E solarDate \in PillarDates :
       \E dayPillar \in {getDayPillar(solarDate, 0)} :
         /\ ~dayPillar.threw
         /\ Called("buildFourPillars",
                   [solarDate |-> solarDate, dayMaster |-> dayPillar.value.stem],
                   buildFourPillars(solarDate, dayPillar.value.stem))

CallCalculateFourPillarsWithLibrary ==
  /\ fn = "idle"
  /\ \E library \in LibraryAnswers :
       Called("calculateFourPillarsWithLibrary", [library |-> library],
              calculateFourPillarsWithLibrary(library))

CallIsDaylightSavingTime ==
  /\ fn = "idle"
  /\ \E timezone \in Timezones \ {"undefined", ""},
        date \in {b \in BirthDates : b.day = 15 /\ b.minutes = 0} :
       Called("isDaylightSavingTime",
              [year |-> date.year, month |-> date.month, day |-> date.day,
               timezone |-> timezone],
              Return(isDaylightSavingTime(date.year, date.month, date.day, timezone)))

CallInferTimezone ==
  /\ fn = "idle"
  /\ \E countryCode \in Countries, longitude \in Longitudes :
       Called("inferTimezone", [countryCode |-> countryCode, longitude |-> longitude],
              Return(inferTimezone(countryCode, longitude)))

CallCalculateChart ==
  /\ fn = "idle"
  /\ \E input \in ChartInputs, library \in LibraryOutcomes, processOffset \in ProcessOffsets :
       Called("calculateChart",
              [input |-> input, library |-> library, processOffset |-> processOffset],
              calculateChart(input, library, processOffset))

\* the try block of calculateChart and its catch branch; the outcome also
\* records the branch that produced the pillars
CallChartFourPillars ==
  /\ fn = "idle"
  /\ \E input \in ChartInputs, library \in LibraryOutcomes, processOffset \in ProcessOffsets :
       Called("chartFourPillars",
              [input |-> input, library |-> library, processOffset |-> processOffset],
              chartFourPillars(input, library, processOffset))

CallPOST ==
  /\ fn = "idle"
  /\ \E body \in RequestBodies, geo \in GeoOutcomes, corrected \in CorrectedTimes,
        library \in LibraryOutcomes, processOffset \in ProcessOffsets, llmFails \in BOOLEAN :
       Called("POST",
              [body |-> body, geo |-> geo, corrected |-> corrected, library |-> library,
               processOffset |-> processOffset, llmFails |-> llmFails],
              POST(body, geo, corrected, library, processOffset, llmFails))

\* the calls of the profile storage record the list they found stored
CallSaveProfile ==
  /\ fn = "idle"
  /\ \E profile \in ProfileInputs(localStorage), random \in RandomSuffixes(localStorage) :
       StorageCalled("saveProfile",
                     [profile |-> profile, stored |-> localStorage, now |-> now],
                     saveProfile(profile, localStorage, now, random))

CallSaveReportData ==
  /\ fn = "idle"
  /\ \E profileId \in ProfileIds(localStorage) :
       StorageCalled("saveReportData",
                     [profileId |-> profileId, stored |-> localStorage, now |-> now],
                     saveReportData(profileId, localStorage, now))

CallUpdateProfile ==
  /\ fn = "idle"
  /\ \E id \in ProfileIds(localStorage), updates \in ProfileUpdates(localStorage) :
       StorageCalled("updateProfile",
                     [id |-> id, updates |-> updates, stored |-> localStorage, now |-> now],
                     updateProfile(id, updates, localStorage, now))

CallDeleteProfile ==
  /\ fn = "idle"
  /\ \E id \in ProfileIds(localStorage) :
       StorageCalled("deleteProfile", [id |-> id, stored |-> localStorage],
                     deleteProfile(id, localStorage))

CallClearProfiles ==
  /\ fn = "idle"
  /\ StorageCalled("clearProfiles", [stored |-> localStorage], clearProfiles(localStorage))

\* the browser clock advances
Tick ==
  /\ fn = "idle"
  /\ now < MaxClock
  /\ now' = now + 1
  /\ UNCHANGED <<fn, args, ret, localStorage>>

\* the same calls with the inputs that fill the list
LruSaveProfile ==
  /\ fn = "idle"
  /\ \E profile \in LruProfileInputs(localStorage), random \in RandomSuffixes(localStorage) :
       StorageCalled("saveProfile",
                     [profile |-> profile, stored |-> localStorage, now |-> now],
                     saveProfile(profile, localStorage, now, random))

LruSaveReportData ==
  /\ fn = "idle"
  /\ \E profileId \in LruProfileIds(localStorage) :
       StorageCalled("saveReportData",
                     [profileId |-> profileId, stored |-> localStorage, now |-> now],
                     saveReportData(profileId, localStorage, now))

LruUpdateProfile ==
  /\ fn = "idle"
  /\ \E id \in LruProfileIds(localStorage) :
       StorageCalled("updateProfile",
                     [id |-> id, updates |-> [name |-> "A"], stored |-> localStorage,
                      now |-> now],
                     updateProfile(id, [name |-> "A"], localStorage, now))

LruDeleteProfile ==
  /\ fn = "idle"
  /\ \E id \in LruProfileIds(localStorage) :
       StorageCalled("deleteProfile", [id |-> id, stored |-> localStorage],
                     deleteProfile(id, localStorage))

\* the caller takes the outcome and is idle again
TakeOutcome ==
  /\ fn # "idle"
  /\ fn' = "idle"
  /\ args' = << >>
  /\ ret' = << >>
  /\ UNCHANGED <<localStorage, now>>

Next ==
  \/ CallCalculateTenGod
  \/ CallGetYearStem
  \/ CallGetYearBranch
  \/ CallCalculateLuckPillars
  \/ CallCalculateInteractionMatrix
  \/ CallComputeLongitudeCorrectionMinutes
  \/ CallToTrueSolarTime
  \/ CallFallbackSolarTime
  \/ CallGetHiddenStemsForBranch
  \/ CallBuildFourPillars
  \/ CallCalculateFourPillarsWithLibrary
  \/ CallIsDaylightSavingTime
  \/ CallInferTimezone
  \/ CallCalculateChart
  \/ CallChartFourPillars
  \/ CallPOST
  \/ CallGetDayPillar
  \/ CallGetMonthStem
  \/ CallHourToBranch
  \/ CallGetHourStem
  \/ CallCalculateStarGods
  \/ TakeOutcome

Spec == Init /\ [][Next]_vars

\* the profile storage in a browser
StorageNext ==
  \/ CallSaveProfile
  \/ CallSaveReportData
  \/ CallUpdateProfile
  \/ CallDeleteProfile
  \/ CallClearProfiles
  \/ Tick
  \/ TakeOutcome

StorageSpec == Init /\ [][StorageNext]_vars

\* the profile storage filled to its cap
StorageLruNext ==
  \/ LruSaveProfile
  \/ LruSaveReportData
  \/ LruUpdateProfile
  \/ LruDeleteProfile
  \/ CallClearProfiles
  \/ Tick
  \/ TakeOutcome

StorageLruSpec == Init /\ [][StorageLruNext]_vars

(***************************************************************************)
(* Properties.                                                             *)
(***************************************************************************)
YangStems == {"Jia", "Bing", "Wu", "Geng", "Ren"}

\* the two stems of one element: Jia/Yi, Bing/Ding, Wu/Ji, Geng/Xin, Ren/Gui
SameElementStems(s1, s2) ==
  IndexOf(HEAVENLY_STEMS, s1) \div 2 = IndexOf(HEAVENLY_STEMS, s2) \div 2

\* C1: calculateTenGod returns one of the ten categories for each of the 100
\* ordered stem pairs and never throws; a stem against itself is BiJian, and
\* against the other stem of its element it is JieCai.
TenGodTotal ==
  fn = "calculateTenGod" =>
    /\ ~ret.threw
    /\ ret.value \in TenGods
    /\ args.dayMaster = args.otherStem => ret.value = "BiJian"
    /\ (args.dayMaster # args.otherStem /\ SameElementStems(args.dayMaster, args.otherStem))
         => ret.value = "JieCai"

TenGodSiblingSeen ==
  /\ fn = "calculateTenGod"
  /\ args.dayMaster = "Ren"
  /\ args.otherStem = "Gui"
  /\ ~ret.threw
  /\ ret.value = "JieCai"

\* C2: calculateLuckPillars returns exactly 8 entries, indexed 1..8 in order,
\* each with endAge = startAge + 9, and each starting 10 years after the one
\* before it (so the ages are contiguous).
LuckPillarsContiguous ==
  fn = "calculateLuckPillars" =>
    /\ ~ret.threw
    /\ Len(ret.value) = 8
    /\ \A i \in 1..Len(ret.value) :
         /\ ret.value[i].index = i
         /\ ret.value[i].endAge = ret.value[i].startAge + 9
         /\ i > 1 => /\ ret.value[i].startAge = ret.value[i - 1].startAge + 10
                     /\ ret.value[i - 1].endAge + 1 = ret.value[i].startAge

LuckPillarsLateStartSeen ==
  /\ fn = "calculateLuckPillars"
  /\ ~ret.threw
  /\ Len(ret.value) = 8
  /\ ret.value[1].startAge = 6
  /\ ret.value[8].startAge = 76
  /\ ret.value[8].endAge = 85

PillarPopulated(p) ==
  /\ p.heavenlyStem \in Stems
  /\ p.earthlyBranch \in Branches

\* C3: calculateChart completes without error for every well-formed input, on
\* the library path and on the internal path, with the four pillars populated
\* and exactly 8 luck pillars of 10 years each.
ChartAlwaysComplete ==
  fn = "calculateChart" =>
    /\ ~ret.threw
    /\ PillarPopulated(ret.value.fourPillars.year)
    /\ PillarPopulated(ret.value.fourPillars.month)
    /\ PillarPopulated(ret.value.fourPillars.day)
    /\ PillarPopulated(ret.value.fourPillars.hour)
    /\ Len(ret.value.luckPillars) = 8
    /\ \A i \in 1..Len(ret.value.luckPillars) :
         ret.value.luckPillars[i].endAge - ret.value.luckPillars[i].startAge = 9

\* C4: the interaction entries hold no self-pair, and for each unordered pair
\* of pillars and each relationship type at most one entry, in one from/to
\* order only.
InteractionEntriesUnique ==
  fn = "calculateInteractionMatrix" =>
    LET entries == ret.entries
    IN /\ \A k \in 1..Len(entries) : entries[k].from # entries[k].to
       /\ \A k \in 1..Len(entries), l \in 1..Len(entries) :
            (k # l /\ entries[k].type = entries[l].type)
              => {entries[k].from, entries[k].to} # {entries[l].from, entries[l].to}

InteractionTwoTypesSeen ==
  /\ fn = "calculateInteractionMatrix"
  /\ Len(ret.entries) >= 3
  /\ \E k \in 1..Len(ret.entries), l \in 1..Len(ret.entries) :
       /\ ret.entries[k].type = "xing"
       /\ ret.entries[l].type = "hai"
       /\ ret.entries[k].from = ret.entries[l].from
       /\ ret.entries[k].to = ret.entries[l].to

LongitudeCorrectionLinear ==
  (fn = "computeLongitudeCorrectionMinutes" /\ args.timezone \in KnownTimezones) =>
    LET L == args.longitude
        M == timezoneMeridians(args.timezone)
    IN /\ ~ret.threw
       /\ ret.value = 4 * (L - M)
       /\ L = M => ret.value = 0
       /\ L < M => ret.value < 0
       /\ L > M => ret.value > 0
       /\ (args.timezone = "Asia/Shanghai" /\ L = 1164) =>
            (M = 1200 /\ ret.value > 0 - 600 /\ ret.value < 0)

BeijingCorrectionSeen ==
  /\ fn = "computeLongitudeCorrectionMinutes"
  /\ args.timezone = "Asia/Shanghai"
  /\ args.longitude = 1164
  /\ ret.value = 0 - 144

\* C7: for a timestamp string that cannot be parsed, toTrueSolarTime (whatever
\* the geo argument, also one without timezone) and fallbackSolarTime both
\* fail with an error whose message contains INVALID_DATE.
InvalidDateAlwaysRejected ==
  /\ (fn = "toTrueSolarTime" /\ ~dateParses(args.localDateTime)) =>
       (ret.threw /\ Includes(ret.message, <<"INVALID", "DATE">>))
  /\ (fn = "fallbackSolarTime" /\ ~dateParses(args.localDateIso)) =>
       (ret.threw /\ Includes(ret.message, <<"INVALID", "DATE">>))

\* C8: for every parseable timestamp fallbackSolarTime succeeds with
\* applied = false, both corrections 0 and a warning containing "not applied";
\* it fails only when the timestamp is unparseable.
FallbackSolarTimeResult ==
  fn = "fallbackSolarTime" =>
    /\ dateParses(args.localDateIso) =>
         /\ ~ret.threw
         /\ ret.value.applied = FALSE
         /\ ret.value.longitudeCorrectionMinutes = 0
         /\ ret.value.equationOfTimeMinutes = 0
         /\ Includes(ret.value.warning, <<"not", "applied">>)
    /\ ret.threw => ~dateParses(args.localDateIso)

FallbackOfIsoStringSeen ==
  /\ fn = "fallbackSolarTime"
  /\ args.localDateIso.kind = "isoZ"
  /\ ~ret.threw
  /\ ret.value.applied = FALSE

\* the rule of the stepping direction
StepsForward(yearStem, gender) ==
  \/ gender = "male" /\ yearStem \in YangStems
  \/ gender = "female" /\ yearStem \notin YangStems

\* the solar-term boundaries around the year of birth
TermBoundaries(birthDate) ==
  {NewDate(y, solarTerms[k].month, solarTerms[k].day, 0) :
     y \in {birthDate.year - 1, birthDate.year, birthDate.year + 1},
     k \in 1..Len(solarTerms)}

\* the earliest boundary strictly after the birth when stepping forward, the
\* latest boundary at or before the birth when stepping in reverse
NearestBoundary(birthDate, forward) ==
  IF forward
  THEN CHOOSE b \in TermBoundaries(birthDate) :
         /\ GetTimeMinutes(b) > GetTimeMinutes(birthDate)
         /\ \A c \in TermBoundaries(birthDate) :
              GetTimeMinutes(c) > GetTimeMinutes(birthDate)
                => GetTimeMinutes(b) <= GetTimeMinutes(c)
  ELSE CHOOSE b \in TermBoundaries(birthDate) :
         /\ GetTimeMinutes(b) <= GetTimeMinutes(birthDate)
         /\ \A c \in TermBoundaries(birthDate) :
              GetTimeMinutes(c) <= GetTimeMinutes(birthDate)
                => GetTimeMinutes(c) <= GetTimeMinutes(b)

WholeDaysBetween(d1, d2) == Abs(GetTimeMinutes(d1) - GetTimeMinutes(d2)) \div (24 * 60)

\* C9: the start age of luck step n is floor(d / 3) + (n - 1) * 10, d being the
\* whole days between the birth and the nearest solar-term boundary in the
\* stepping direction.
StartAgeFromNearestTerm ==
  fn = "calculateLuckPillars" =>
    LET forward == StepsForward(args.yearStem, args.gender)
        d == WholeDaysBetween(args.birthDate, NearestBoundary(args.birthDate, forward))
    IN /\ ~ret.threw
       /\ \A n \in 1..Len(ret.value) :
            ret.value[n].startAge = (d \div 3) + (n - 1) * 10

OtherGender(gender) == IF gender = "male" THEN "female" ELSE "male"

\* C10: the luck cycle steps forward (first luck pillar one after the month
\* pillar) iff male with a yang year stem or female with a yin year stem, and
\* in reverse (one before) otherwise; so with the same year stem and month
\* pillar the other gender gets a different first luck pillar.
LuckDirectionRule ==
  fn = "calculateLuckPillars" =>
    LET d == IF StepsForward(args.yearStem, args.gender) THEN 1 ELSE 0 - 1
        first == ret.value[1].pillar
        other == calculateLuckPillars(args.yearStem, args.monthStem, args.monthBranch,
                                      OtherGender(args.gender), args.monthStem,
                                      args.birthDate)
    IN /\ ~ret.threw
       /\ first.heavenlyStem
            = HEAVENLY_STEMS[((IndexOf(HEAVENLY_STEMS, args.monthStem) + d + 10) % 10) + 1]
       /\ first.earthlyBranch
            = EARTHLY_BRANCHES[((IndexOf(EARTHLY_BRANCHES, args.monthBranch) + d + 12) % 12) + 1]
       /\ ~other.threw
       /\ other.value[1].pillar # first

FemaleYangReverseSeen ==
  /\ fn = "calculateLuckPillars"
  /\ args.gender = "female"
  /\ args.yearStem = "Geng"
  /\ args.monthStem = "Ding"
  /\ args.monthBranch = "Chou"
  /\ ~ret.threw
  /\ ret.value[1].pillar.heavenlyStem = "Bing"
  /\ ret.value[1].pillar.earthlyBranch = "Zi"

Strengths == {"weak", "medium", "strong"}

HiddenStemsWellFormed(hiddenStems) ==
  /\ Len(hiddenStems) \in 1..3
  /\ \A k \in 1..Len(hiddenStems) : hiddenStems[k].strength \in Strengths

\* C11: getHiddenStemsForBranch returns 1 to 3 hidden stems, each weak, medium
\* or strong, for each of the 12 branches; so the year, month, day and hour
\* pillars (on both paths) and every luck pillar carry a non-empty list.
HiddenStemsNonEmpty ==
  /\ (fn = "getHiddenStemsForBranch" /\ args.branch \in Branches) =>
       (~ret.threw /\ HiddenStemsWellFormed(ret.value))
  /\ (fn \in {"buildFourPillars", "calculateFourPillarsWithLibrary"} /\ ~ret.threw) =>
       \A key \in {"year", "month", "day", "hour"} :
         HiddenStemsWellFormed(ret.value[key].hiddenStems)
  /\ (fn = "calculateLuckPillars" /\ ~ret.threw) =>
       \A i \in 1..Len(ret.value) : HiddenStemsWellFormed(ret.value[i].pillar.hiddenStems)
  /\ (fn = "calculateChart" /\ ~ret.threw) =>
       /\ \A key \in {"year", "month", "day", "hour"} :
            HiddenStemsWellFormed(ret.value.fourPillars[key].hiddenStems)
       /\ \A i \in 1..Len(ret.value.luckPillars) :
            HiddenStemsWellFormed(ret.value.luckPillars[i].pillar.hiddenStems)

SingleHiddenStemSeen ==
  /\ fn = "getHiddenStemsForBranch"
  /\ args.branch = "Zi"
  /\ ~ret.threw
  /\ Len(ret.value) = 1
  /\ ret.value[1].stem = "Gui"

ClassifiedAgainst(hiddenStems, reference) ==
  \A k \in 1..Len(hiddenStems) :
    /\ ~calculateTenGod(reference, hiddenStems[k].stem).threw
    /\ hiddenStems[k].tenGod = calculateTenGod(reference, hiddenStems[k].stem).value

\* C12: each hidden stem of the year, month, day and hour pillars carries
\* tenGod = calculateTenGod(stem of the day pillar, hidden stem), on the
\* library path and on the internal path; each hidden stem of a luck pillar
\* carries tenGod = calculateTenGod(month stem, hidden stem).
TenGodReference ==
  /\ (fn \in {"buildFourPillars", "calculateFourPillarsWithLibrary"} /\ ~ret.threw) =>
       \A key \in {"year", "month", "day", "hour"} :
         ClassifiedAgainst(ret.value[key].hiddenStems, ret.value.day.heavenlyStem)
  /\ (fn = "calculateLuckPillars" /\ ~ret.threw) =>
       \A i \in 1..Len(ret.value) :
         ClassifiedAgainst(ret.value[i].pillar.hiddenStems, args.monthStem)
  /\ (fn = "calculateChart" /\ ~ret.threw) =>
       /\ \A key \in {"year", "month", "day", "hour"} :
            ClassifiedAgainst(ret.value.fourPillars[key].hiddenStems,
                              ret.value.fourPillars.day.heavenlyStem)
       /\ \A i \in 1..Len(ret.value.luckPillars) :
            ClassifiedAgainst(ret.value.luckPillars[i].pillar.hiddenStems,
                              ret.value.fourPillars.month.heavenlyStem)

\* a luck pillar classified against a month stem that is not the day master
LuckPillarMonthReferenceSeen ==
  /\ fn = "calculateLuckPillars"
  /\ args.monthStem = "Ding"
  /\ args.dayMaster = "Geng"
  /\ ~ret.threw
  /\ ret.value[1].pillar.earthlyBranch = "Yin"
  /\ ret.value[1].pillar.hiddenStems[1].stem = "Jia"
  /\ ret.value[1].pillar.hiddenStems[1].tenGod = "PianYin"

\* months in which daylight saving covers every day, in every year since
\* 1987 (in China: in the years 1986 to 1991, when it was observed there)
DstCertainlyOn(timezone, year, month) ==
  \/ /\ timezone \in {"America/New_York", "America/Chicago", "America/Denver",
                      "America/Los_Angeles"}
     /\ month \in 5..9
  \/ /\ timezone \in {"Europe/London", "Europe/Paris", "Europe/Berlin", "Europe/Rome"}
     /\ month \in 4..8
  \/ /\ timezone \in {"Australia/Sydney", "Australia/Melbourne", "Pacific/Auckland"}
     /\ month \in {11, 12, 1, 2}
  \/ /\ timezone = "Asia/Shanghai"
     /\ year \in 1986..1991
     /\ month \in 6..8

\* months in which no day has daylight saving
DstCertainlyOff(timezone, year, month) ==
  \/ /\ timezone \in {"America/New_York", "America/Chicago", "America/Denver",
                      "America/Los_Angeles", "Europe/London", "Europe/Paris",
                      "Europe/Berlin", "Europe/Rome"}
     /\ month \in {12, 1, 2}
  \/ /\ timezone \in {"Australia/Sydney", "Australia/Melbourne", "Pacific/Auckland"}
     /\ month \in 5..8
  \/ timezone \in {"America/Phoenix", "Asia/Tokyo", "Asia/Singapore", "Asia/Kolkata"}

\* C13: the one-hour shift is removed if and only if daylight saving is in
\* effect in the timezone at that date, in the northern and in the southern
\* hemisphere (stated for the months in which it is certainly on or off).
DstRemovedIffInEffect ==
  fn = "isDaylightSavingTime" =>
    /\ DstCertainlyOn(args.timezone, args.year, args.month) => ret.value = TRUE
    /\ DstCertainlyOff(args.timezone, args.year, args.month) => ret.value = FALSE

\* C14: toTrueSolarTime corrects against the central meridian of the
\* timezone it is handed by the geo resolver, or fails; it never corrects
\* against a default meridian for a timezone without an entry.
NoDefaultMeridian ==
  (fn = "toTrueSolarTime" /\ args.geoResult.timezone \in GeoTimezones /\ ~ret.threw) =>
    /\ args.geoResult.timezone \in KnownTimezones
    /\ ret.value.longitudeCorrectionMinutes
         = 4 * (args.geoResult.longitude - timezoneMeridians(args.geoResult.timezone))


\* the year, month, day and time of day a timestamp string spells out
WallClock(str) == <<str.year, str.month, str.day, str.minutes>>

\* C15: for every parseable local timestamp string t, the timestamp in the
\* result of fallbackSolarTime spells out the wall-clock date and time of t,
\* with no shift and no timezone conversion.
FallbackTimestampUnmodified ==
  (fn = "fallbackSolarTime" /\ args.localDateIso.kind = "local" /\ ~ret.threw) =>
    WallClock(ret.value.solarTimeIso) = WallClock(args.localDateIso)


\* the library answered with a character outside STEM_MAP or BRANCH_MAP
LookupMiss(library) ==
  /\ ~library.unavailable
  /\ \E k \in {"year", "month", "day", "time"} :
       \/ STEM_MAP(library.pillars[k][1]) = "undefined"
       \/ BRANCH_MAP(library.pillars[k][2]) = "undefined"

\* C16: a lookup miss in a fixed table is fatal: a branch outside the closed
\* set makes getHiddenStemsForBranch fail instead of answering a default, and
\* a stem or branch character outside the tables of the adapter reaches the
\* caller as an error instead of being caught and recomputed on another
\* path.
LookupMissFatal ==
  /\ (fn = "getHiddenStemsForBranch" /\ args.branch \notin Branches) => ret.threw
  /\ (fn = "chartFourPillars" /\ LookupMiss(args.library)) => ret.threw


\* the call of calculateChart fell back from the library to the engine's own
\* arithmetic and that arithmetic produced the four pillars
FellBack(call) ==
  Const(chartFourPillars(call.input, call.library, call.processOffset), LAMBDA pillars :
    ~pillars.threw /\ pillars.value.path = "simplified")

\* C17: whenever calculateChart falls back to the engine's own arithmetic it
\* returns a chart, and the chart carries a mark saying that the approximate
\* path produced it.
FallbackChartMarked ==
  (fn = "calculateChart" /\ FellBack(args)) =>
    /\ ~ret.threw
    /\ "path" \in DOMAIN ret.value
    /\ ret.value.path = "simplified"


\* what of an outcome of the pillar step goes into the chart
ChartPart(outcome) ==
  IF outcome.threw THEN outcome
  ELSE Return([fourPillars |-> outcome.value.fourPillars, dayMaster |-> outcome.value.dayMaster])

GeoAbsent(geo) ==
  \/ ~geo.suggestions
  \/ ~geo.resolves
  \/ ~geo.result.hasCoordinates

\* C19: for a valid request whose geo resolution is absent or fails (and
\* whose later steps do not fail) POST answers 200 with a chart, with
\* solarTime.applied = false and a warning that true solar time was not
\* applied.
GeoFailureDegrades ==
  (/\ fn = "POST"
   /\ ~validateBirthInput(args.body).threw
   /\ GeoAbsent(args.geo)
   /\ ~args.llmFails) =>
    /\ ret.status = 200
    /\ ret.body.success
    /\ ret.body.data.solarTime.applied = FALSE
    /\ Includes(ret.body.data.solarTime.warning, <<"True", "Solar", "Time", "not", "applied">>)


\* the profile has the key fields of the one given: gender, birth date, city
SameKey(p, profile) ==
  /\ p.gender = profile.gender
  /\ p.birthDate = profile.birthDate
  /\ p.birthCity = profile.birthCity

\* the positions, from 1, of the stored profiles with the key fields given
Matching(stored, profile) == {i \in 1..Len(stored) : SameKey(stored[i], profile)}

\* C20: saveProfile called with the gender, birthDate and birthCity of a
\* stored profile adds no entry and returns that profile updated: the
\* profile returned has the id of the stored one and the fields supplied.
SaveExistingReturnsIt ==
  (fn = "saveProfile" /\ Matching(args.stored, args.profile) # {}) =>
    /\ Len(localStorage) = Len(args.stored)
    /\ ~ret.threw
    /\ \E i \in Matching(args.stored, args.profile) : ret.value.id = args.stored[i].id
    /\ ret.value.name = args.profile.name
    /\ SameKey(ret.value, args.profile)


\* the stored profiles that are gone after the call
Dropped == {i \in 1..Len(args.stored) :
              \A j \in 1..Len(localStorage) : localStorage[j].id # args.stored[i].id}

\* C21: at most MAX_PROFILES profiles are stored after every call, and a
\* saveProfile of a new profile into a full list drops exactly one profile,
\* one than which no stored profile was updated earlier.
AtMostFiveLeastRecentDropped ==
  /\ Len(localStorage) <= MAX_PROFILES
  /\ (/\ fn = "saveProfile"
      /\ Len(args.stored) = MAX_PROFILES
      /\ Matching(args.stored, args.profile) = {}) =>
       /\ Cardinality(Dropped) = 1
       /\ \A i \in Dropped : \A j \in 1..Len(args.stored) :
            args.stored[i].updatedAt <= args.stored[j].updatedAt

\* a new profile was saved into a full list whose profiles were not all
\* updated at the same time, one of them by saveReportData
FullListSaveSeen ==
  /\ fn = "saveProfile"
  /\ Len(args.stored) = MAX_PROFILES
  /\ Matching(args.stored, args.profile) = {}
  /\ \E i, j \in 1..Len(args.stored) : args.stored[i].updatedAt < args.stored[j].updatedAt
  /\ \E i \in 1..Len(args.stored) : args.stored[i].reportData # undefinedReportData


\* C22: the luck pillar at step n has the stem at index (monthStemIndex +
\* d * n) mod 10 and the branch at index (monthBranchIndex + d * n) mod 12,
\* d being +1 when the steps go forward and -1 otherwise; the call succeeds
\* for every month pillar and each of the steps 1..totalSteps.
LuckPillarStepping ==
  fn = "calculateLuckPillars" =>
    /\ ~ret.threw
    /\ Len(ret.value) = totalSteps
    /\ \A n \in 1..totalSteps :
         LET d == IF StepsForward(args.yearStem, args.gender) THEN 1 ELSE 0 - 1
             stemIndex   == (IndexOf(HEAVENLY_STEMS, args.monthStem) + d * n) % 10
             branchIndex == (IndexOf(EARTHLY_BRANCHES, args.monthBranch) + d * n) % 12
         IN /\ ret.value[n].pillar.heavenlyStem = HEAVENLY_STEMS[stemIndex + 1]
            /\ ret.value[n].pillar.earthlyBranch = EARTHLY_BRANCHES[branchIndex + 1]

\* stepping backward from Jia-Zi wraps around: step 8 is Bing-Chen
LuckPillarWrapSeen ==
  /\ fn = "calculateLuckPillars"
  /\ args.monthStem = "Jia" /\ args.monthBranch = "Zi"
  /\ ~StepsForward(args.yearStem, args.gender)
  /\ ~ret.threw
  /\ ret.value[8].pillar.heavenlyStem = "Bing"
  /\ ret.value[8].pillar.earthlyBranch = "Chen"


\* calendar days from the base date 1924-02-05, negative before it
DaysFromEpoch(date) ==
  DayNumber(date.year, date.month, date.day)
  - DayNumber(baseDate.year, baseDate.month, baseDate.day)

\* C23: a date k calendar days from 1924-02-05 has the day stem at index
\* k mod 10 and the day branch at index (k + 2) mod 12, for negative k as
\* well; so 1924-02-05 is Jia-Yin and 1989-03-16 is Yi-Hai.
DayPillarFromEpoch ==
  fn = "getDayPillar" =>
    /\ ~ret.threw
    /\ ret.value.stem = HEAVENLY_STEMS[(DaysFromEpoch(args.date) % 10) + 1]
    /\ ret.value.branch = EARTHLY_BRANCHES[((DaysFromEpoch(args.date) + 2) % 12) + 1]


\* the position of a month branch in the solar-term ordering: Yin is 0,
\* Mao 1, ..., Zi 10, Chou 11
SolarTermPosition(branch) == (IndexOf(EARTHLY_BRANCHES, branch) + 10) % 12

\* C24: getMonthStem returns a stem for every month branch and year stem;
\* with g the year stem index mod 5, the Yin month has the stem at index
\* (2g + 2) mod 10 and each following month in the solar-term ordering
\* (Yin, Mao, ..., Zi, Chou) has the next stem.
MonthStemFiveTigers ==
  fn = "getMonthStem" =>
    /\ ~ret.threw
    /\ ret.value =
         HEAVENLY_STEMS[((2 * (IndexOf(HEAVENLY_STEMS, args.yearStem) % 5) + 2
                          + SolarTermPosition(args.monthBranch)) % 10) + 1]

\* the last month of the ordering in a Gui year: the stem has wrapped around
MonthStemChouSeen ==
  /\ fn = "getMonthStem"
  /\ args = [monthBranch |-> "Chou", yearStem |-> "Gui"]
  /\ ret = Return("Yi")

\* C25: hour h of 0..23 has the branch at index floor((h + 1) / 2) mod 12,
\* so that 23 and 0 are Zi; the hour stem is the stem at index
\* (2 * (day stem index mod 5) + hour branch index) mod 10.
HourPillarFiveRats ==
  /\ fn = "hourToBranch" =>
       /\ ~ret.threw
       /\ ret.value = EARTHLY_BRANCHES[(((args.hour + 1) \div 2) % 12) + 1]
  /\ fn = "getHourStem" =>
       /\ ~ret.threw
       /\ ret.value =
            HEAVENLY_STEMS[((2 * (IndexOf(HEAVENLY_STEMS, args.dayStem) % 5)
                             + IndexOf(EARTHLY_BRANCHES, args.hourBranch)) % 10) + 1]

\* the hour before midnight belongs to Zi
HourTwentyThreeSeen ==
  fn = "hourToBranch" /\ args.hour = 23 /\ ret = Return("Zi")


\* the pairs of pillars the analyzer looks at, as positions in pillarKeys
PillarPairs == {p \in (1..Len(pillarKeys)) \X (1..Len(pillarKeys)) : p[1] < p[2]}

\* entries holds an entry of the type from the one pillar to the other
HasEntry(entries, type, from, to) ==
  \E k \in 1..Len(entries) :
    entries[k].type = type /\ entries[k].from = from /\ entries[k].to = to

\* fourPillars with the pillars at the two keys exchanged
Exchanged(fourPillars, key1, key2) ==
  [fourPillars EXCEPT ![key1] = fourPillars[key2], ![key2] = fourPillars[key1]]

\* C26: two pillars with the branches (a, b) have a combine entry exactly
\* when, with the two pillars exchanged so that the branches are (b, a),
\* they have one: the combine table pairs branches symmetrically.
CombineSymmetric ==
  fn = "calculateInteractionMatrix" =>
    \A p \in PillarPairs :
      LET key1 == pillarKeys[p[1]]
          key2 == pillarKeys[p[2]]
      IN HasEntry(ret.entries, "he", key1, key2)
         <=> HasEntry(calculateInteractionMatrix(
                        Exchanged(args.fourPillars, key1, key2)).entries,
                      "he", key1, key2)

\* the groups of branches that punish one another: two of three branches
\* and one of two
PunishGroups == {{"Yin", "Si", "Shen"}, {"Chou", "Wei", "Xu"}, {"Zi", "Mao"}}

\* C27 as amended: two pillars have a punish entry exactly when their
\* branches are two distinct members of the same of three fixed groups, the
\* triads Yin-Si-Shen and Chou-Wei-Xu and the pair Zi-Mao.
PunishWithinGroup ==
  fn = "calculateInteractionMatrix" =>
    \A p \in PillarPairs :
      LET key1    == pillarKeys[p[1]]
          key2    == pillarKeys[p[2]]
          branch1 == args.fourPillars[key1].earthlyBranch
          branch2 == args.fourPillars[key2].earthlyBranch
      IN HasEntry(ret.entries, "xing", key1, key2)
         <=> /\ branch1 # branch2
             /\ \E group \in PunishGroups : branch1 \in group /\ branch2 \in group

\* a punish entry within the pair, and none between two pillars of one branch
PunishPairSeen ==
  /\ fn = "calculateInteractionMatrix"
  /\ args.fourPillars.year.earthlyBranch = "Zi"
  /\ args.fourPillars.month.earthlyBranch = "Mao"
  /\ args.fourPillars.day.earthlyBranch = "Mao"
  /\ HasEntry(ret.entries, "xing", "year", "month")
  /\ ~HasEntry(ret.entries, "xing", "month", "day")

\* the sets of three branches of which every two punish each other, as two
\* pillars of a chart that holds nothing else of interest
PunishTriads ==
  LET punish(a, b) ==
        HasEntry(calculateInteractionMatrix(
                   [year |-> BranchOnly(a), month |-> BranchOnly(b),
                    day |-> BranchOnly("Chen"), hour |-> BranchOnly("Chen")]).entries,
                 "xing", "year", "month")
  IN {t \in {{a, b, c} : a \in Branches, b \in Branches, c \in Branches} :
        /\ Cardinality(t) = 3
        /\ \A a \in t, b \in t : a # b => punish(a, b)}

\* C27: there are three triads of branches, and two pillars have a punish
\* entry exactly when their branches are two distinct members of one triad.
PunishWithinTriad ==
  fn = "calculateInteractionMatrix" =>
    /\ Cardinality(PunishTriads) = 3
    /\ \A p \in PillarPairs :
         LET key1    == pillarKeys[p[1]]
             key2    == pillarKeys[p[2]]
             branch1 == args.fourPillars[key1].earthlyBranch
             branch2 == args.fourPillars[key2].earthlyBranch
         IN HasEntry(ret.entries, "xing", key1, key2)
            <=> /\ branch1 # branch2
                /\ \E triad \in PunishTriads : branch1 \in triad /\ branch2 \in triad


\* the peach-blossom branch of a branch: You for Shen, Zi, Chen; Mao for Yin,
\* Wu, Xu; Wu for Si, You, Chou; Zi for Hai, Mao, Wei
PeachBlossomOf(branch) ==
  CASE branch \in {"Shen", "Zi", "Chen"} -> "You"
    [] branch \in {"Yin", "Wu", "Xu"}    -> "Mao"
    [] branch \in {"Si", "You", "Chou"}  -> "Wu"
    [] branch \in {"Hai", "Mao", "Wei"}  -> "Zi"

\* the noble branches of a day stem
NobleBranchesOf(stem) ==
  CASE stem \in {"Jia", "Wu"}    -> {"Chou", "Wei"}
    [] stem \in {"Yi", "Ji"}     -> {"Zi", "Shen"}
    [] stem \in {"Bing", "Ding"} -> {"Hai", "You"}
    [] stem \in {"Geng", "Xin"}  -> {"Yin", "Wu"}
    [] stem \in {"Ren", "Gui"}   -> {"Mao", "Si"}

\* stars holds a marker of the key on the pillar
HasMarker(stars, key, pillar) ==
  \E k \in 1..Len(stars) : stars[k].key = key /\ stars[k].pillar = pillar

TimestampRejected ==
  /\ fn = "POST"
  /\ ~validateBirthInput(args.body).threw
  /\ args.geo.suggestions
  /\ args.geo.resolves
  /\ args.geo.result.hasCoordinates
  /\ toTrueSolarTime(args.body.birthDate, args.geo.result)
       = Throw(<<"INVALID", "DATE", "FORMAT">>)

\* C29: when toTrueSolarTime rejects the timestamp POST received with
\* INVALID_DATE_FORMAT, the response is an error response that carries this
\* error, and no chart is computed from another solar time.
InvalidDateFormatSurfaced ==
  TimestampRejected =>
    /\ ~ret.body.success
    /\ ret.body.error.message = <<"INVALID", "DATE", "FORMAT">>


\* the stem and the branch of the pillar stand at indices of one parity, as
\* the sixty pairs of the sexagenary cycle do
SexagenaryPair(pillar) ==
  IndexOf(HEAVENLY_STEMS, pillar.heavenlyStem) % 2
    = IndexOf(EARTHLY_BRANCHES, pillar.earthlyBranch) % 2

\* C30: buildFourPillars returns, for every date and hour, a year, month,
\* day and hour pillar whose stem index and branch index have the same
\* parity, and the luck pillars stepped from a month pillar of matching
\* parity have matching parity too.
PillarsAreSexagenaryPairs ==
  /\ fn = "buildFourPillars" =>
       /\ ~ret.threw
       /\ \A p \in 1..Len(pillarKeys) : SexagenaryPair(ret.value[pillarKeys[p]])
  /\ (/\ fn = "calculateLuckPillars"
      /\ SexagenaryPair([heavenlyStem |-> args.monthStem,
                         earthlyBranch |-> args.monthBranch])) =>
       /\ ~ret.threw
       /\ \A n \in 1..Len(ret.value) : SexagenaryPair(ret.value[n].pillar)

\* the pillars of a day before the base date of the day pillar, in the hour
\* before midnight
EarlyLateHourPillarsSeen ==
  /\ fn = "buildFourPillars"
  /\ args.solarDate.year < baseDate.year
  /\ args.solarDate.minutes = 23 * 60
  /\ ~ret.threw
  /\ ret.value.hour.earthlyBranch = "Zi"

====
